---- MODULE Spec2Model ----
(***************************************************************************)
(* Emission simulator for organic waste (landfill, vermicomposting,        *)
(* thermophilic composting): a model of src/app.py.                        *)
(*                                                                         *)
(* Numbers.  The program computes in binary floating point; the model      *)
(* computes in decimal fixed point over the integers:                      *)
(*   - moisture and DOC are integer percents (85 = 0.85), temperature is   *)
(*     in whole degrees Celsius, waste mass in whole kg;                   *)
(*   - a gas mass is an integer number of 1e-7 kg (UKg units per kg);      *)
(*   - a fraction in [0,1] (exp, kernel) is an integer number of 1/S;      *)
(*   - a CO2-equivalent mass is an integer number of grams (1e-6 t).       *)
(* Every product is followed by the division that brings it back to its    *)
(* unit, rounding toward minus infinity, so a result differs from the      *)
(* real-number value by less than one unit per operation.                  *)
(*                                                                         *)
(* Eight specifications.  Spec: a caller applies one simulation function     *)
(* to arguments inside or outside its domain.  SpecHorizonte: the two      *)
(* entry points over short horizons and over the horizons the application  *)
(* simulates.  SpecApp: a session of the Streamlit application, each       *)
(* interaction running the script from its top through tab 1 and tab 2     *)
(* (base table, Sobol, Monte Carlo).  SpecParalelo: the simulations of a   *)
(* sample, handed to workers or called in a loop, and the array collected. *)
(* SpecKernel: the landfill CH4 kernel on its way to the emissions.        *)
(* SpecCotacao: the quotes of the carbon price and of the exchange rate.   *)
(* SpecPagina: the runs of the script that load and refresh the quotes in  *)
(* the sidebar; SpecPaginaJusta: the same, where a run that has started    *)
(* goes on to its end or to its st.rerun().                                *)
(***************************************************************************)
EXTENDS Integers, Sequences, FiniteSets, TLC

\* a call of a function: position, function and arguments, result
VARIABLES pc, call, ret

\* a session of the application: the state of the global generator of
\* np.random, the position of the script, the flags of the session and the
\* values of the widgets, the outputs of the two tabs, and the Monte Carlo
\* outputs of the previous run of the script
VARIABLES gerador, fase, entrada, lote, cont, anterior

\* a fan-out of simulations over the rows of a sample: the rows, the
\* outcomes of the simulations that have finished, the array collected
VARIABLES paralelo

\* the arrays of the module that the simulation functions read
VARIABLES modulo

\* a page of the application in a browser: st.session_state, the position
\* of the script (its top, the sidebar, the metrics shown), whether the run was started by the refresh button, and the
\* fetches and reruns of exibir_cotacao_carbono since the page was opened or
\* the button was last clicked
VARIABLES pagina

chamada == <<pc, call, ret>>

sessao == <<gerador, fase, entrada, lote, cont, anterior>>

vars == <<pc, call, ret, gerador, fase, entrada, lote, cont, anterior, paralelo, modulo,
         pagina>>

(***************************************************************************)
(* Fixed-point arithmetic                                                  *)
(***************************************************************************)
\* S = B * B: a product of two fractions is formed from half-words
B == 10 ^ 4

\* one = S units: the scale of exp(), of the decay kernel and of a
\* normalised profile weight
S == B * B

\* units of gas mass per kg (1 unit = 1e-7 kg)
UKg == 10 ^ 7

\* floor(a * b / S) without leaving 32 bits (0 <= a, b)
MulS(a, b) ==
  LET a1 == a \div B
      a0 == a % B
      b1 == b \div B
      b0 == b % B
  IN  a1 * b1 + (a1 * b0 + a0 * b1 + (a0 * b0) \div B) \div B

\* floor(a * b / c) for c > 0 and small b * c
MulDiv(a, b, c) == (a \div c) * b + ((a % c) * b) \div c

Max(a, b) == IF a >= b THEN a ELSE b

Min(a, b) == IF a <= b THEN a ELSE b

Abs(a) == IF a >= 0 THEN a ELSE 0 - a

\* np.clip(x, lo, hi)
Clip(x, lo, hi) == Min(Max(x, lo), hi)

\* sum of f[lo..hi], by halves (np.sum adds pairwise too)
RECURSIVE SumRange(_, _, _)
SumRange(f, lo, hi) ==
  IF lo > hi THEN 0
  ELSE IF lo = hi THEN f[lo]
  ELSE LET mid == (lo + hi) \div 2
       IN  SumRange(f, lo, mid) + SumRange(f, mid + 1, hi)

\* arr.sum()
SumSeq(s) == SumRange(s, 1, Len(s))

\* the running sums of f[lo..hi], as a sequence of hi - lo + 1 values
RECURSIVE CumRange(_, _, _)
CumRange(f, lo, hi) ==
  IF lo > hi THEN <<>>
  ELSE IF lo = hi THEN <<f[lo]>>
  ELSE LET mid == (lo + hi) \div 2
           l == CumRange(f, lo, mid)
           r == CumRange(f, mid + 1, hi)
           c == l[Len(l)]
       IN  l \o [i \in 1..Len(r) |-> r[i] + c]

\* series.cumsum()
CumSum(s) == CumRange(s, 1, Len(s))

\* the terms of exp(-x) = 1 - x + x^2/2! - x^3/3! + ... until they vanish
RECURSIVE ExpTerms(_, _, _, _)
ExpTerms(x, term, n, acc) ==
  IF term = 0 THEN acc
  ELSE LET nt == MulS(term, x) \div n
       IN  ExpTerms(x, nt, n + 1, IF n % 2 = 1 THEN acc - nt ELSE acc + nt)

\* np.exp(-x) for a fixed-point x >= 0
ExpNeg(x) == ExpTerms(x, S, 1, S)

(***************************************************************************)
(* Fixed parameters                                                        *)
(***************************************************************************)
\* T = 25: mean temperature (degrees Celsius)
T == 25

\* DOC = 0.15, in percent
DOC == 15

\* MCF = 1: methane correction factor
MCF == 1

\* F = 0.5, in tenths: methane fraction of the biogas
F10 == 5

\* OX = 0.1, in tenths: oxidation factor
OX10 == 1

\* Ri = 0.0, in tenths: recovered methane
Ri10 == 0

\* k_ano = 0.06 per year, in 1e-8 per year (the scale S)
k_ano == 6000000

\* the days of a year in the decay rate per day, k_ano / 365
DIAS_ANO == 365

\* TOC_YANG = 0.436, in thousandths
TOC_YANG == 436

\* TN_YANG = 14.2 / 1000, in 1e-4
TN_YANG == 142

\* CH4_C_FRAC_YANG = 0.13 / 100, in 1e-4
CH4_C_FRAC_YANG == 13

\* N2O_N_FRAC_YANG = 0.92 / 100, in 1e-4
N2O_N_FRAC_YANG == 92

\* CH4_C_FRAC_THERMO = 0.006, in 1e-4
CH4_C_FRAC_THERMO == 60

\* N2O_N_FRAC_THERMO = 0.0196, in 1e-4
N2O_N_FRAC_THERMO == 196

\* DIAS_COMPOSTAGEM = 50
DIAS_COMPOSTAGEM == 50

\* GWP_CH4_20 = 79.7, in tenths
GWP_CH4_20 == 797

\* GWP_N2O_20 = 273, in tenths
GWP_N2O_20 == 2730

\* CH4_pre_descarte_g_por_kg_dia = 2.78 * (16/12) * 24 / 1e6 g per kg per
\* day = 8.896e-5, in 1e-9 g
CH4_pre_descarte_g_por_kg_dia == (278 * 16 * 24 * 10) \div 12

\* N2O_pre_descarte_g_por_kg_dia = (20.26 / 3) * (44/28) / 1000 g per kg
\* per day = 0.0106124, in 1e-8 g
N2O_pre_descarte_g_por_kg_dia == (2026 * 44 * 1000) \div (3 * 28)

\* PERFIL_N2O_PRE_DESCARTE = {1: 0.8623, 2: 0.10, 3: 0.0377}, in 1e-4
PERFIL_N2O_PRE_DESCARTE == <<8623, 1000, 377>>

\* the profile without its fifth day: the weights sum to 0.95
PERFIL_N2O_sem_quinto_dia == <<10, 30, 40, 15>>

\* PERFIL_N2O = {1: 0.10, 2: 0.30, 3: 0.40, 4: 0.15, 5: 0.05}, in hundredths
PERFIL_N2O == <<10, 30, 40, 15, 5>>

\* the literal of PERFIL_CH4_VERMI, in thousandths
PERFIL_CH4_VERMI_LIT ==
  <<20, 20, 20, 30, 30, 40, 40, 50, 50, 60,
    70, 80, 90, 100, 90, 80, 70, 60, 50, 40,
    30, 20, 20, 10, 10, 10, 10, 10, 10, 10,
    5, 5, 5, 5, 5, 5, 5, 5, 5, 5,
    2, 2, 2, 2, 2, 1, 1, 1, 1, 1>>

\* the literal of PERFIL_N2O_VERMI, in thousandths
PERFIL_N2O_VERMI_LIT ==
  <<150, 100, 200, 50, 30, 30, 30, 40, 50, 60,
    80, 90, 100, 80, 70, 60, 50, 40, 30, 20,
    10, 10, 5, 5, 5, 5, 5, 5, 5, 5,
    2, 2, 2, 2, 2, 1, 1, 1, 1, 1,
    1, 1, 1, 1, 1, 1, 1, 1, 1, 1>>

\* the literal of PERFIL_CH4_THERMO, in thousandths
PERFIL_CH4_THERMO_LIT ==
  <<10, 20, 30, 50, 80, 120, 150, 180, 200, 180,
    150, 120, 100, 80, 60, 50, 40, 30, 20, 20,
    10, 10, 10, 10, 10, 5, 5, 5, 5, 5,
    2, 2, 2, 2, 2, 1, 1, 1, 1, 1,
    1, 1, 1, 1, 1, 1, 1, 1, 1, 1>>

\* the literal of PERFIL_N2O_THERMO, in thousandths
PERFIL_N2O_THERMO_LIT ==
  <<100, 80, 150, 50, 30, 40, 50, 70, 100, 120,
    150, 180, 200, 180, 150, 120, 100, 80, 60, 50,
    40, 30, 20, 20, 10, 10, 10, 10, 10, 10,
    5, 5, 5, 5, 5, 2, 2, 2, 2, 2,
    1, 1, 1, 1, 1, 1, 1, 1, 1, 1>>

\* the literal of perfil_ch4 in calcular_emissoes_vermicompostagem_lote
perfil_ch4_vermi_lote_lit ==
  <<20, 20, 20, 30, 30, 40, 40, 50, 50, 60,
    70, 80, 90, 100, 90, 80, 70, 60, 50, 40,
    30, 20, 20, 10, 10, 10, 10, 10, 10, 10,
    5, 5, 5, 5, 5, 5, 5, 5, 5, 5,
    2, 2, 2, 2, 2, 1, 1, 1, 1, 1>>

\* the literal of perfil_ch4 in calcular_emissoes_compostagem_lote
perfil_ch4_compost_lote_lit ==
  <<10, 20, 30, 50, 80, 120, 150, 180, 200, 180,
    150, 120, 100, 80, 60, 50, 40, 30, 20, 20,
    10, 10, 10, 10, 10, 5, 5, 5, 5, 5,
    2, 2, 2, 2, 2, 1, 1, 1, 1, 1,
    1, 1, 1, 1, 1, 1, 1, 1, 1, 1>>

\* the literal weights used as they are written (no division by their sum)
Normalizar_omitido(lit) == [j \in 1..Len(lit) |-> MulDiv(S, lit[j], 1000)]

\* perfil /= perfil.sum(): each weight divided by the sum of the weights,
\* as a fraction of scale S
Normalizar(lit) ==
  LET total == SumSeq(lit)
  IN  [j \in 1..Len(lit) |-> MulDiv(S, lit[j], total)]

PERFIL_CH4_VERMI == Normalizar(PERFIL_CH4_VERMI_LIT)

PERFIL_N2O_VERMI == Normalizar(PERFIL_N2O_VERMI_LIT)

PERFIL_CH4_THERMO == Normalizar(PERFIL_CH4_THERMO_LIT)

PERFIL_N2O_THERMO == Normalizar(PERFIL_N2O_THERMO_LIT)

\* the profile arrays of the module once the script has built them
Modulo ==
  [PERFIL_CH4_VERMI |-> PERFIL_CH4_VERMI, PERFIL_N2O_VERMI |-> PERFIL_N2O_VERMI,
   PERFIL_CH4_THERMO |-> PERFIL_CH4_THERMO,
   PERFIL_N2O_THERMO |-> PERFIL_N2O_THERMO]

(***************************************************************************)
(* Results of a call                                                       *)
(***************************************************************************)
\* a call that returned two series (CH4, N2O)
Series(c, n) == [status |-> "ok", ch4 |-> c, n2o |-> n]

\* a call that raised
Raised(e) == [status |-> "raised", erro |-> e]

\* no result
Nenhum == [status |-> "none"]

(***************************************************************************)
(* Landfill: first-order decay                                             *)
(***************************************************************************)
\* the decay rate per day taken over a year of 360 days
Expoente_360(t) == MulDiv(k_ano, t, 360)

\* k_ano * t / 365, the exponent of the decay after t days
Expoente(t) == MulDiv(k_ano, t, DIAS_ANO)

\* the first n decimal digits of num / den, for 0 <= num < den
RECURSIVE Quociente(_, _, _)
Quociente(num, den, n) ==
  IF n = 0 THEN 0
  ELSE ((num * 10) \div den) * 10 ^ (n - 1)
         + Quociente((num * 10) % den, den, n - 1)

\* the kernel divided by its sum over the horizon (kernel / kernel.sum())
KernelCH4_renormalizado(dias) ==
  LET e == [i \in 1..(dias + 1) |-> ExpNeg(Expoente(i - 1))] \o <<>>
      soma == e[1] - e[dias + 1]
  IN  [t \in 1..dias |->
         IF e[t] - e[t + 1] = soma THEN S
         ELSE Quociente(e[t] - e[t + 1], soma, 8)]

\* the two exponentials of the kernel exchanged
KernelCH4_invertido(dias) ==
  LET e == [i \in 1..(dias + 1) |-> ExpNeg(Expoente(i - 1))] \o <<>>
  IN  [t \in 1..dias |-> e[t + 1] - e[t]]

\* np.exp(-k_ano * (t - 1) / 365) - np.exp(-k_ano * t / 365) for t = 1..dias
KernelCH4(dias) ==
  LET e == [i \in 1..(dias + 1) |-> ExpNeg(Expoente(i - 1))] \o <<>>
  IN  [t \in 1..dias |-> e[t] - e[t + 1]]

\* np.maximum(kernel_ch4, 0)
Maximum0(kernel) == [t \in 1..Len(kernel) |-> Max(kernel[t], 0)]

\* DOCf = 0.0147 * temperatura + 0.28, in 1e-4
DOCfCalc(temperatura) == 147 * temperatura + 2800

\* the potential without the oxidation in the cover: residuos * DOC * DOCf *
\* MCF * F * (16/12) * (1 - Ri)
PotencialCH4_sem_oxidacao(residuos, doc, docf) ==
  MulDiv(residuos * doc * docf, MCF * F10 * 16 * (10 - Ri10) * 10 * 10, 12 * 1000)

\* residuos * DOC * DOCf * MCF * F * (16/12) * (1 - Ri) * (1 - OX), in mass
\* units: doc (percent) * docf (1e-4) is in 1e-6, the tenths bring 1e-3
PotencialCH4(residuos, doc, docf) ==
  MulDiv(residuos * doc * docf,
         MCF * F10 * 16 * (10 - Ri10) * (10 - OX10) * 10, 12 * 1000)

\* the kernel of a lot on its way to the emissions: kernel_ch4 =
\* np.maximum(kernel_ch4, 0), emissoes_CH4 = potencial_CH4_total *
\* kernel_ch4, fracao_total_emitida = kernel_ch4.sum()
EmissoesCH4Lote(kernel, potencial_CH4_total) ==
  LET kernel_ch4 == Maximum0(kernel) \o <<>>
  IN  [emissoes_CH4 |-> [t \in 1..Len(kernel) |->
                           MulS(potencial_CH4_total, kernel_ch4[t])],
       fracao_total_emitida |-> SumSeq(kernel_ch4)]

\* calcular_potencial_metano_aterro(residuos_kg, umidade, temperatura, dias):
\* (emissoes_CH4, potencial_CH4_total, DOCf, fracao_total_emitida)
calcular_potencial_metano_aterro(residuos_kg, umidade, temperatura, dias) ==
  LET DOCf == DOCfCalc(temperatura)
      potencial_CH4_total == PotencialCH4(residuos_kg, DOC, DOCf)
      e == EmissoesCH4Lote(KernelCH4(dias) \o <<>>, potencial_CH4_total)
  IN  [status |-> "ok",
       emissoes_CH4 |-> e.emissoes_CH4,
       potencial_CH4_total |-> potencial_CH4_total,
       DOCf |-> DOCf,
       fracao_total_emitida |-> e.fracao_total_emitida]

(***************************************************************************)
(* Single lot: vermicomposting and thermophilic composting                 *)
(***************************************************************************)
\* the CH4 of a lot taken on the wet mass: residuos * (TOC * CH4_C_FRAC *
\* (16/12))
TotalCH4PorLote_massa_umida(residuos, toc, frac, fracao_ms) ==
  MulDiv(residuos * 100, toc * frac * 16, 12 * 100)

\* residuos * (TOC * CH4_C_FRAC * (16/12) * fracao_ms), in mass units:
\* toc (1e-3) * frac (1e-4) * fracao_ms (percent) is in 1e-9
TotalCH4PorLote(residuos, toc, frac, fracao_ms) ==
  MulDiv(residuos * fracao_ms, toc * frac * 16, 12 * 100)

\* residuos * (TN * N2O_N_FRAC * (44/28) * fracao_ms), in mass units:
\* tn (1e-4) * frac (1e-4) * fracao_ms (percent) is in 1e-10
TotalN2OPorLote(residuos, tn, frac, fracao_ms) ==
  MulDiv(residuos * fracao_ms, tn * frac * 11, 7 * 1000)

\* total * perfil, element by element
Distribuir(total, perfil) ==
  [j \in 1..Len(perfil) |-> MulS(total, perfil[j])]

\* the vermicomposting lot with the profile of the thermophilic lot in place
\* of its own
calcular_emissoes_vermicompostagem_lote_perfil_trocado(residuos_kg, umidade, dias) ==
  LET ch4_total_por_lote == TotalCH4PorLote(residuos_kg, 436, 13, 100 - umidade)
  IN  [status |-> "ok",
       emissoes_CH4 |-> Distribuir(ch4_total_por_lote,
                                   Normalizar(perfil_ch4_compost_lote_lit)),
       ch4_total_por_lote |-> ch4_total_por_lote]

\* calcular_emissoes_vermicompostagem_lote(residuos_kg, umidade, dias):
\* (emissoes_CH4, ch4_total_por_lote); dias is not used
calcular_emissoes_vermicompostagem_lote(residuos_kg, umidade, dias) ==
  LET fracao_ms == 100 - umidade
      ch4_total_por_lote == TotalCH4PorLote(residuos_kg, 436, 13, fracao_ms)
      perfil_ch4 == Normalizar(perfil_ch4_vermi_lote_lit)
  IN  [status |-> "ok",
       emissoes_CH4 |-> Distribuir(ch4_total_por_lote, perfil_ch4),
       ch4_total_por_lote |-> ch4_total_por_lote]

\* calcular_emissoes_compostagem_lote(residuos_kg, umidade, dias):
\* (emissoes_CH4, ch4_total_por_lote); dias is not used
calcular_emissoes_compostagem_lote(residuos_kg, umidade, dias) ==
  LET fracao_ms == 100 - umidade
      ch4_total_por_lote == TotalCH4PorLote(residuos_kg, 436, 60, fracao_ms)
      perfil_ch4 == Normalizar(perfil_ch4_compost_lote_lit)
  IN  [status |-> "ok",
       emissoes_CH4 |-> Distribuir(ch4_total_por_lote, perfil_ch4),
       ch4_total_por_lote |-> ch4_total_por_lote]

(***************************************************************************)
(* Continuous input: pre-disposal and landfill                             *)
(***************************************************************************)
\* the response of a single injection instead of the sum over the days of
\* injection
Fftconvolve_um_lote(c, h, hden, dias) ==
  [n \in 1..dias |-> IF n <= Len(h) THEN (c * h[n]) \div hden ELSE 0]

\* fftconvolve(np.full(dias, c), h, mode='full')[:dias] for a kernel h of
\* weights over hden: day n receives c * h[j] from the entry of day
\* n - j + 1, for every j <= n within the kernel.  (The program computes
\* the same sums through an FFT; its rounding noise, some 1e-16 of the
\* largest value, is below one unit of the model.)
Fftconvolve(c, h, hden, dias) ==
  LET acc == CumSum(h)
  IN  [n \in 1..dias |-> (c * acc[Min(n, Len(h))]) \div hden]

\* ajustar_emissoes_pre_descarte(O2_concentracao): (ch4_ajustado in 1e-9 g,
\* n2o_ajustado in 1e-8 g) per kg and day
ajustar_emissoes_pre_descarte(O2_concentracao) ==
  LET fator_n2o == CASE O2_concentracao = 21 -> <<1, 1>>
                     [] O2_concentracao = 10 -> <<1111, 2026>>
                     [] O2_concentracao = 1 -> <<786, 2026>>
                     [] OTHER -> <<1, 1>>
  IN  <<CH4_pre_descarte_g_por_kg_dia,
        MulDiv(N2O_pre_descarte_g_por_kg_dia, fator_n2o[1], fator_n2o[2])>>

\* calcular_emissoes_pre_descarte(O2_concentracao, dias_simulacao,
\* residuos_kg_dia): np.full and np.zeros raise on a negative length
calcular_emissoes_pre_descarte(O2_concentracao, dias_simulacao, residuos_kg_dia) ==
  LET aj == ajustar_emissoes_pre_descarte(O2_concentracao)
      ch4_dia == (residuos_kg_dia * aj[1]) \div 100000
      parcela == [j \in 1..Len(PERFIL_N2O_PRE_DESCARTE) |->
                    MulS(residuos_kg_dia * aj[2], PERFIL_N2O_PRE_DESCARTE[j])]
      acc == CumSum(parcela)
  IN  IF dias_simulacao < 0 THEN Raised("ValueError")
      ELSE Series([n \in 1..dias_simulacao |-> ch4_dia],
                  [n \in 1..dias_simulacao |-> acc[Min(n, Len(parcela))]])

\* (massa_exposta_kg / residuos_kg_dia) * (h_exposta / 24) as it is, without
\* np.clip
FAberto_sem_clip(massa_exposta_kg, residuos_kg_dia, h_exposta) ==
  LET num == massa_exposta_kg * h_exposta * 10000
      den == Abs(residuos_kg_dia) * 24
  IN  (IF residuos_kg_dia > 0 THEN num ELSE 0 - num) \div den

\* np.clip((massa_exposta_kg / residuos_kg_dia) * (h_exposta / 24), 0, 1),
\* in 1e-4, for residuos_kg_dia # 0
FAberto(massa_exposta_kg, residuos_kg_dia, h_exposta) ==
  LET num == massa_exposta_kg * h_exposta * 10000
      den == Abs(residuos_kg_dia) * 24
  IN  Clip((IF residuos_kg_dia > 0 THEN num ELSE 0 - num) \div den, 0, 10000)

\* E_medio = f_aberto * 1.91 + (1 - f_aberto) * 2.15, in 1e-6
EMedio(f_aberto) == f_aberto * 191 + (10000 - f_aberto) * 215

\* (E_medio * fator_umid * (44/28) / 1e6) * residuos_kg_dia in mass units,
\* with fator_umid = (1 - umidade) / (1 - 0.55)
EmissaoDiariaN2O(E_medio, umidade, residuos_kg_dia) ==
  LET E_medio_ajust == MulDiv(E_medio, 100 - umidade, 100 - 55)
  IN  (MulDiv(E_medio_ajust, 11, 7) * residuos_kg_dia) \div 100000

\* the kernel of the continuous input on its way to the emissions:
\* emissoes_CH4 = fftconvolve(entradas_diarias, kernel_ch4,
\* mode='full')[:dias_simulacao], emissoes_CH4 *= potencial_CH4_lote_diario
EmissoesCH4Continuo(kernel, potencial_CH4_lote_diario, dias_simulacao) ==
  LET conv_ch4 == Fftconvolve(1, kernel, 1, dias_simulacao) \o <<>>
  IN  [n \in 1..dias_simulacao |->
         MulS(potencial_CH4_lote_diario, conv_ch4[n])]

\* calcular_emissoes_aterro(params, dias_simulacao, residuos_kg_dia,
\* massa_exposta_kg, h_exposta): (total_ch4_aterro_kg, total_n2o_aterro_kg).
\* The arguments are Python numbers: the division by residuos_kg_dia = 0
\* raises ZeroDivisionError; np.ones raises on a negative length.
calcular_emissoes_aterro(params, dias_simulacao, residuos_kg_dia, massa_exposta_kg, h_exposta) ==
  IF residuos_kg_dia = 0 THEN Raised("ZeroDivisionError")
  ELSE IF dias_simulacao < 0 THEN Raised("ValueError")
  ELSE
    LET umidade_val == params[1]
        temp_val == params[2]
        doc_val == params[3]
        f_aberto == FAberto(massa_exposta_kg, residuos_kg_dia, h_exposta)
        docf_calc == DOCfCalc(temp_val)
        potencial_CH4_lote_diario == PotencialCH4(residuos_kg_dia, doc_val, docf_calc)
        kernel_ch4 == KernelCH4(dias_simulacao) \o <<>>
        emissoes_CH4 == EmissoesCH4Continuo(kernel_ch4, potencial_CH4_lote_diario,
                                            dias_simulacao) \o <<>>
        emissao_diaria_N2O == EmissaoDiariaN2O(EMedio(f_aberto), umidade_val,
                                               residuos_kg_dia)
        emissoes_N2O == Fftconvolve(emissao_diaria_N2O, PERFIL_N2O, 100,
                                    dias_simulacao)
        pre == calcular_emissoes_pre_descarte(21, dias_simulacao, residuos_kg_dia)
    IN  Series([n \in 1..dias_simulacao |-> emissoes_CH4[n] + pre.ch4[n]],
               [n \in 1..dias_simulacao |-> emissoes_N2O[n] + pre.n2o[n]])

(***************************************************************************)
(* Continuous input: vermicomposting and thermophilic composting           *)
(***************************************************************************)
\* the sums of the two loops kept for every day a lot emits on, the days
\* past the horizon included
Acumular_sem_corte(total, perfil, dias_simulacao) ==
  LET acc == CumSum(Distribuir(total, perfil))
  IN  [n \in 1..(dias_simulacao + Len(perfil) - 1) |->
         IF n <= Len(perfil) THEN acc[n]
         ELSE IF n <= dias_simulacao THEN acc[Len(perfil)]
         ELSE acc[Len(perfil)] - acc[n - dias_simulacao]]

\* the emissions of the lot of the first day alone
Acumular_um_lote(total, perfil, dias_simulacao) ==
  [n \in 1..dias_simulacao |->
     IF n <= Len(perfil) THEN MulS(total, perfil[n]) ELSE 0]

\* The two nested loops: every entry day dia_entrada adds total *
\* perfil[dia_compostagem] to day dia_entrada + dia_compostagem when that
\* day is inside the horizon, so day n (from 1) receives the terms of
\* dia_compostagem = 0..min(n, len(perfil)) - 1, once each.
Acumular(total, perfil, dias_simulacao) ==
  LET acc == CumSum(Distribuir(total, perfil))
  IN  [n \in 1..dias_simulacao |-> acc[Min(n, Len(perfil))]]

\* calcular_emissoes_vermi(params, dias_simulacao, residuos_kg_dia):
\* np.zeros raises on a negative length
calcular_emissoes_vermi_em(m, params, dias_simulacao, residuos_kg_dia) ==
  LET umidade_val == params[1]
      fracao_ms == 100 - umidade_val
      ch4_total_por_lote ==
        TotalCH4PorLote(residuos_kg_dia, TOC_YANG, CH4_C_FRAC_YANG, fracao_ms)
      n2o_total_por_lote ==
        TotalN2OPorLote(residuos_kg_dia, TN_YANG, N2O_N_FRAC_YANG, fracao_ms)
  IN  IF dias_simulacao < 0 THEN Raised("ValueError")
      ELSE Series(Acumular(ch4_total_por_lote, m.PERFIL_CH4_VERMI, dias_simulacao),
                  Acumular(n2o_total_por_lote, m.PERFIL_N2O_VERMI, dias_simulacao))

\* the function with the arrays of the module as the script built them
calcular_emissoes_vermi(params, dias_simulacao, residuos_kg_dia) ==
  calcular_emissoes_vermi_em(Modulo, params, dias_simulacao, residuos_kg_dia)

\* thermophilic composting with the emitted fractions of vermicomposting
\* (CH4_C_FRAC_YANG, N2O_N_FRAC_YANG) in place of its own
calcular_emissoes_compostagem_fracoes_vermi(m, params, dias_simulacao, residuos_kg_dia) ==
  LET fracao_ms == 100 - params[1]
      ch4_total_por_lote ==
        TotalCH4PorLote(residuos_kg_dia, TOC_YANG, CH4_C_FRAC_YANG, fracao_ms)
      n2o_total_por_lote ==
        TotalN2OPorLote(residuos_kg_dia, TN_YANG, N2O_N_FRAC_YANG, fracao_ms)
  IN  IF dias_simulacao < 0 THEN Raised("ValueError")
      ELSE Series(Acumular(ch4_total_por_lote, m.PERFIL_CH4_THERMO, dias_simulacao),
                  Acumular(n2o_total_por_lote, m.PERFIL_N2O_THERMO, dias_simulacao))

\* calcular_emissoes_compostagem(params, dias_simulacao, residuos_kg_dia,
\* dias_compostagem = 50); dias_compostagem is not used
calcular_emissoes_compostagem_em(m, params, dias_simulacao, residuos_kg_dia) ==
  LET umidade == params[1]
      fracao_ms == 100 - umidade
      ch4_total_por_lote ==
        TotalCH4PorLote(residuos_kg_dia, TOC_YANG, CH4_C_FRAC_THERMO, fracao_ms)
      n2o_total_por_lote ==
        TotalN2OPorLote(residuos_kg_dia, TN_YANG, N2O_N_FRAC_THERMO, fracao_ms)
  IN  IF dias_simulacao < 0 THEN Raised("ValueError")
      ELSE Series(Acumular(ch4_total_por_lote, m.PERFIL_CH4_THERMO, dias_simulacao),
                  Acumular(n2o_total_por_lote, m.PERFIL_N2O_THERMO, dias_simulacao))

\* the function with the arrays of the module as the script built them
calcular_emissoes_compostagem(params, dias_simulacao, residuos_kg_dia) ==
  calcular_emissoes_compostagem_em(Modulo, params, dias_simulacao, residuos_kg_dia)

(***************************************************************************)
(* CO2 equivalence                                                         *)
(***************************************************************************)
\* the mass units of one gram of CO2eq at a GWP of 1.0 given in tenths:
\* 1 unit = 1e-7 kg = 1e-4 g, and the tenth
UG == 10 ^ 5

\* (ch4 * gwp_ch4 + n2o * gwp_n2o) / 1000 for one day: tonnes in the
\* program, grams here
Tco2eq(ch4, n2o, gwp_ch4, gwp_n2o) ==
  (ch4 \div UG) * gwp_ch4 + (n2o \div UG) * gwp_n2o
    + ((ch4 % UG) * gwp_ch4 + (n2o % UG) * gwp_n2o) \div UG

\* (ch4 * GWP_CH4_20 + n2o * GWP_N2O_20) / 1000, day by day
TotalTco2eq(r) ==
  [n \in 1..Len(r.ch4) |-> Tco2eq(r.ch4[n], r.n2o[n], GWP_CH4_20, GWP_N2O_20)]

\* executar_simulacao_completa(parametros, dias, residuos_kg_dia,
\* massa_exposta_kg, h_exposta): landfill minus vermicomposting
executar_simulacao_completa_em(m, parametros, dias, residuos_kg_dia, massa_exposta_kg, h_exposta) ==
  LET aterro == calcular_emissoes_aterro(parametros, dias, residuos_kg_dia,
                                         massa_exposta_kg, h_exposta)
      vermi == calcular_emissoes_vermi_em(m, parametros, dias, residuos_kg_dia)
  IN  IF aterro.status = "raised" THEN aterro
      ELSE IF vermi.status = "raised" THEN vermi
      ELSE LET total_aterro_tco2eq == SumSeq(TotalTco2eq(aterro) \o <<>>)
               total_vermi_tco2eq == SumSeq(TotalTco2eq(vermi) \o <<>>)
           IN  [status |-> "ok",
                total_aterro |-> total_aterro_tco2eq,
                total_projeto |-> total_vermi_tco2eq,
                reducao_tco2eq |-> total_aterro_tco2eq - total_vermi_tco2eq]

executar_simulacao_completa(parametros, dias, residuos_kg_dia, massa_exposta_kg, h_exposta) ==
  executar_simulacao_completa_em(Modulo, parametros, dias, residuos_kg_dia,
                                 massa_exposta_kg, h_exposta)

\* executar_simulacao_unfccc(parametros, dias, residuos_kg_dia,
\* massa_exposta_kg, h_exposta): landfill minus thermophilic composting
executar_simulacao_unfccc_em(m, parametros, dias, residuos_kg_dia, massa_exposta_kg, h_exposta) ==
  LET aterro == calcular_emissoes_aterro(parametros, dias, residuos_kg_dia,
                                         massa_exposta_kg, h_exposta)
      compost == calcular_emissoes_compostagem_em(m, parametros, dias, residuos_kg_dia)
  IN  IF aterro.status = "raised" THEN aterro
      ELSE IF compost.status = "raised" THEN compost
      ELSE LET total_aterro_tco2eq == SumSeq(TotalTco2eq(aterro) \o <<>>)
               total_compost_tco2eq == SumSeq(TotalTco2eq(compost) \o <<>>)
           IN  [status |-> "ok",
                total_aterro |-> total_aterro_tco2eq,
                total_projeto |-> total_compost_tco2eq,
                reducao_tco2eq |-> total_aterro_tco2eq - total_compost_tco2eq]

executar_simulacao_unfccc(parametros, dias, residuos_kg_dia, massa_exposta_kg, h_exposta) ==
  executar_simulacao_unfccc_em(Modulo, parametros, dias, residuos_kg_dia,
                               massa_exposta_kg, h_exposta)

(***************************************************************************)
(* The inputs of the calls                                                 *)
(***************************************************************************)
\* the longest horizon of a call of a continuous-input function (days)
MaxDias == 60

\* the largest waste mass of a call (kg, or kg per day)
MaxResiduos == 100

\* the number of steps of the single-lot horizon slider that are tried
MaxPassosLote == 2

\* st.slider("Dias de simulação", 50, 3650, 365, 50): the step and the
\* initial value
PASSO_DIAS_LOTE == 50

DIAS_LOTE_PADRAO == 365

\* st.slider("Anos de simulação", 5, 50, 20, 5): the least value and the step
ANOS_MINIMO == 5

PASSO_ANOS == 5

\* moisture (percent), temperature (Celsius) and DOC (percent) of the ranges
\* moisture 0.40..0.95, temperature 15..45, DOC 0.10..0.30
Umidades == {40, 85, 95}

Temperaturas == {15, T, 45}

DOCs == {10, DOC, 30}

\* horizons below, at and above the lengths of the profiles (3, 5, 50)
Dias == {1, 2, 4, 5, DIAS_COMPOSTAGEM - 1, DIAS_COMPOSTAGEM, MaxDias}

\* waste mass: the least value of the sliders and the largest of the model
Residuos == {10, MaxResiduos}

\* the horizons of the single-lot analysis
DiasLote == {PASSO_DIAS_LOTE * i : i \in 1..MaxPassosLote} \cup {DIAS_LOTE_PADRAO}

\* the arguments of a call: moisture, temperature, DOC, horizon, waste mass,
\* exposed mass, exposure hours (those a function does not take are 0)
Args(u, t, d, n, r, m, h) ==
  [umidade |-> u, temperatura |-> t, doc |-> d, dias |-> n, residuos |-> r,
   massa |-> m, h |-> h]

\* valid arguments of the continuous-input functions
ArgsValidos ==
  {Args(u, t, d, n, r, 100, 8) :
     u \in Umidades, t \in Temperaturas, d \in DOCs, n \in Dias, r \in Residuos}

\* arguments outside the valid domain: moisture outside (0,1), waste mass
\* zero or negative, horizon zero or negative
ArgsInvalidos ==
  {Args(u, T, DOC, 5, MaxResiduos, 100, 8) : u \in {-10, 0, 100, 120}}
    \cup {Args(85, T, DOC, 5, r, 100, 8) : r \in {-10, 0}}
    \cup {Args(85, T, DOC, n, MaxResiduos, 100, 8) : n \in {-1, 0}}

\* the ends of the moisture range, over horizons that hold a whole lot
ArgsBorda ==
  {Args(u, T, DOC, n, MaxResiduos, 100, 8) :
     u \in {0, 100}, n \in {DIAS_COMPOSTAGEM, MaxDias}}

\* moisture in (0,1), waste mass >= 0, horizon > 0 (the decay rate is the
\* constant k_ano, no argument)
Valido(a) ==
  /\ a.umidade > 0
  /\ a.umidade < 100
  /\ a.residuos >= 0
  /\ a.dias > 0

\* the arguments that matter to the composting functions (temperature and
\* DOC are received and ignored)
ArgsCompostagem ==
  {a \in ArgsValidos \cup ArgsInvalidos \cup ArgsBorda :
     a.temperatura = T /\ a.doc = DOC}

\* the arguments of the single-lot functions: sliders 50..95 percent,
\* 15..35 Celsius, lot of 10..1000 kg
ArgsLote ==
  {Args(u, t, 0, n, r, 0, 0) :
     u \in {50, 85, 95}, t \in {15, T, 35}, n \in DiasLote, r \in Residuos}

Params(a) == <<a.umidade, a.temperatura, a.doc>>

(***************************************************************************)
(* The application: the generator of np.random                             *)
(***************************************************************************)
\* np.random.seed(50)
SEMENTE == 50

\* the state of the generator after np.random.seed(s): a function of s alone
Seed(s) == s % 65537

\* the state of the generator after one more number is drawn (a linear
\* congruential step stands for the step of the Mersenne Twister)
Avancar(x) == (75 * x + 74) % 65537

\* the n successive states of the generator from which n numbers are drawn
RECURSIVE Sortear(_, _)
Sortear(x, n) ==
  IF n = 0 THEN <<>> ELSE <<Avancar(x)>> \o Sortear(Avancar(x), n - 1)

\* the state of the generator after k numbers are drawn
RECURSIVE Consumir(_, _)
Consumir(x, k) == IF k = 0 THEN x ELSE Consumir(Avancar(x), k - 1)

\* np.random.uniform(0.75, 0.90): moisture 0.75 or 0.85 (percent)
Uniform(x) == 75 + 10 * (x % 2)

\* np.random.normal(25, 3): 22 or 28 Celsius
Normal(x) == 22 + 6 * ((x \div 2) % 2)

\* np.random.triangular(0.12, 0.15, 0.18): DOC 0.13 or 0.17 (percent)
Triangular(x) == 13 + 4 * ((x \div 4) % 2)

\* the generator is not seeded: the draws continue from the state the
\* earlier phases left
gerar_parametros_mc_tese_sem_semente(estado, n) ==
  LET u == Sortear(estado, n)
      t == Sortear(u[n], n)
      d == Sortear(t[n], n)
  IN  [gerador |-> d[n],
       umidade_vals |-> [i \in 1..n |-> Uniform(u[i])],
       temp_vals |-> [i \in 1..n |-> Normal(t[i])],
       doc_vals |-> [i \in 1..n |-> Triangular(d[i])]]

\* gerar_parametros_mc_tese(n), called when the generator is in state
\* estado: np.random.seed(50), then n uniform, n normal and n triangular
\* draws; returns the three arrays and leaves the generator advanced
gerar_parametros_mc_tese(estado, n) ==
  LET u == Sortear(Seed(SEMENTE), n)
      t == Sortear(u[n], n)
      d == Sortear(t[n], n)
  IN  [gerador |-> d[n],
       umidade_vals |-> [i \in 1..n |-> Uniform(u[i])],
       temp_vals |-> [i \in 1..n |-> Normal(t[i])],
       doc_vals |-> [i \in 1..n |-> Triangular(d[i])]]

\* gerar_parametros_mc_unfccc(n) without its np.random.seed(50): the draws
\* continue where those of the thesis scenario ended
gerar_parametros_mc_unfccc_sem_semente(estado, n) ==
  LET u == Sortear(estado, n)
      t == Sortear(u[n], n)
      d == Sortear(t[n], n)
  IN  [gerador |-> d[n],
       umidade_vals |-> [i \in 1..n |-> Uniform(u[i])],
       temp_vals |-> [i \in 1..n |-> Normal(t[i])],
       doc_vals |-> [i \in 1..n |-> Triangular(d[i])]]

\* gerar_parametros_mc_unfccc(n): the same statements as
\* gerar_parametros_mc_tese
gerar_parametros_mc_unfccc(estado, n) ==
  LET u == Sortear(Seed(SEMENTE), n)
      t == Sortear(u[n], n)
      d == Sortear(t[n], n)
  IN  [gerador |-> d[n],
       umidade_vals |-> [i \in 1..n |-> Uniform(u[i])],
       temp_vals |-> [i \in 1..n |-> Normal(t[i])],
       doc_vals |-> [i \in 1..n |-> Triangular(d[i])]]

\* the (moisture, temperature, DOC) triples a Monte Carlo draw can give
PontosMC ==
  {<<u, t, d>> : u \in {75, 85}, t \in {22, 28}, d \in {13, 17}}

(***************************************************************************)
(* The application: the summary of a Monte Carlo outcome array             *)
(***************************************************************************)
\* np.sort: the array in non-decreasing order (by insertion)
RECURSIVE Ordenar(_)
Ordenar(a) ==
  IF Len(a) <= 1 THEN a
  ELSE LET r == Ordenar(Tail(a))
           x == Head(a)
           menores == SelectSeq(r, LAMBDA y : y < x)
           outros == SelectSeq(r, LAMBDA y : y >= x)
       IN  menores \o <<x>> \o outros

\* np.mean(a), for a non-empty array
Media(a) == SumSeq(a) \div Len(a)

\* np.percentile(a, q) with q = q10 / 10: linear interpolation between the
\* two order statistics around position (n - 1) * q / 100
Percentile(a, q10) ==
  LET o == Ordenar(a)
      pos == (Len(a) - 1) * q10
      i == pos \div 1000
      frac == pos % 1000
  IN  IF frac = 0 THEN o[i + 1]
      ELSE o[i + 1] + MulDiv(o[i + 2] - o[i + 1], frac, 1000)

\* what the program computes of a Monte Carlo outcome array: media_tese =
\* np.mean(results_array_tese) and intervalo_95_tese =
\* np.percentile(results_array_tese, [2.5, 97.5]) (the same for UNFCCC)
ResumoMC(results) ==
  [media |-> Media(results),
   intervalo_95 |-> <<Percentile(results, 25), Percentile(results, 975)>>]

(***************************************************************************)
(* The application: Sobol sampling                                         *)
(***************************************************************************)
\* problem_tese['bounds'] and problem_unfccc['bounds']: moisture 0.5..0.85,
\* temperature 25..45, DOC 0.15..0.50
problem_bounds == <<<<50, 85>>, <<25, 45>>, <<15, 50>>>>

\* problem_tese['names'] and problem_unfccc['names']
problem_names == <<"umidade", "T", "DOC">>

\* sample(problem, N) of SALib: the rows A, AB_1, AB_2, AB_3, BA_1, BA_2,
\* BA_3, B of each of N base samples (2 * num_vars + 2 rows each), X_i being
\* X with column i taken from the other matrix.  The base rows are the
\* library's; here they are the two ends of the bounds, exchanged from one
\* base sample to the next.
sample(bounds, N) ==
  LET lo == [i \in 1..3 |-> bounds[i][1]]
      hi == [i \in 1..3 |-> bounds[i][2]]
      Troca(x, y, i) == [j \in 1..3 |-> IF j = i THEN y[j] ELSE x[j]]
      Bloco(a, b) ==
        <<a, Troca(a, b, 1), Troca(a, b, 2), Troca(a, b, 3),
          Troca(b, a, 1), Troca(b, a, 2), Troca(b, a, 3), b>>
      Linhas[k \in 0..N] ==
        IF k = 0 THEN <<>>
        ELSE Linhas[k - 1] \o (IF k % 2 = 1 THEN Bloco(lo, hi) ELSE Bloco(hi, lo))
  IN  Linhas[N]

(***************************************************************************)
(* The application: the two tabs                                           *)
(***************************************************************************)
\* GWP_CH4 = 27.9 of the financial valuation of the single lot, in tenths
GWP_CH4 == 279

\* for percentual in [50, 90, 95, 99]
Percentuais == {50, 90, 95, 99}

\* the last of the days whose cumulated share has reached the percentage, in
\* place of the first
DiaDoPercentual_ultimo(acumulado, percentual, dias_simulacao) ==
  dias_simulacao

\* df_temporal[df_temporal['<cenario>_%_Acumulado'] >= percentual]['Dia']
\* .iloc[0], or dias_simulacao when the selection is empty (except): the
\* share is acumulado / total * 100 with total the last cumulated value, and
\* the constant 0 when total is not positive
DiaDoPercentual(acumulado, percentual, dias_simulacao) ==
  LET total == acumulado[Len(acumulado)]
      dias == IF total > 0
              THEN {n \in 1..Len(acumulado) : acumulado[n] * 100 >= percentual * total}
              ELSE {}
  IN  IF dias = {} THEN dias_simulacao
      ELSE CHOOSE n \in dias : \A k \in dias : n <= k

\* one row of resultados_temporais, with the cumulated column it is read from
ResultadoTemporal(acumulado, dias_simulacao) ==
  [Total_kg |-> acumulado[Len(acumulado)],
   acumulado |-> acumulado,
   dia |-> [p \in Percentuais |-> DiaDoPercentual(acumulado, p, dias_simulacao)]]

\* tab 1, a lot of residuos_kg: the three CH4 series over dias_simulacao
\* days (the composting ones padded with zeros after day 50), their
\* cumulated sums, and the avoided CH4 valued in CO2eq (grams); the
\* days on which each scenario reaches 50, 90, 95 and 99 percent of its total
AnaliseLote(residuos_kg, umidade, temperatura, dias_simulacao) ==
  LET aterro == calcular_potencial_metano_aterro(residuos_kg, umidade,
                                                 temperatura, dias_simulacao)
      dias_vermi == Min(DIAS_COMPOSTAGEM, dias_simulacao)
      vermi == calcular_emissoes_vermicompostagem_lote(residuos_kg, umidade,
                                                       dias_vermi)
      compost == calcular_emissoes_compostagem_lote(residuos_kg, umidade,
                                                    dias_vermi)
      Preencher(serie) ==
        [n \in 1..dias_simulacao |-> IF n <= dias_vermi THEN serie[n] ELSE 0]
      Aterro_Acumulado == CumSum(aterro.emissoes_CH4 \o <<>>)
      Vermi_Acumulado == CumSum(Preencher(vermi.emissoes_CH4) \o <<>>)
      Compost_Acumulado == CumSum(Preencher(compost.emissoes_CH4) \o <<>>)
      ultimo == dias_simulacao
  IN  [status |-> "ok",
       dias_simulacao |-> dias_simulacao,
       resultados_temporais |->
         [Aterro |-> ResultadoTemporal(Aterro_Acumulado, dias_simulacao),
          Vermi |-> ResultadoTemporal(Vermi_Acumulado, dias_simulacao),
          Compost |-> ResultadoTemporal(Compost_Acumulado, dias_simulacao)],
       gwp_ch4 |-> GWP_CH4,
       fracao_emitida |-> aterro.fracao_total_emitida,
       aterro_acumulado |-> Aterro_Acumulado[ultimo],
       vermi_acumulado |-> Vermi_Acumulado[ultimo],
       compost_acumulado |-> Compost_Acumulado[ultimo],
       total_evitado_vermi_tco2eq |->
         Tco2eq(Aterro_Acumulado[ultimo] - Vermi_Acumulado[ultimo], 0, GWP_CH4, 0),
       total_evitado_compost_tco2eq |->
         Tco2eq(Aterro_Acumulado[ultimo] - Compost_Acumulado[ultimo], 0, GWP_CH4, 0)]

\* every gas valued with the factor of CH4
ParaTco2eq_so_ch4(serie, gwp) ==
  [n \in 1..Len(serie) |->
     (serie[n] \div UG) * GWP_CH4_20 + ((serie[n] % UG) * GWP_CH4_20) \div UG]

\* df[gas + '_kg_dia'] * GWP / 1000: tonnes in the program, grams here
ParaTco2eq(serie, gwp) ==
  [n \in 1..Len(serie) |->
     (serie[n] \div UG) * gwp + ((serie[n] % UG) * gwp) \div UG]

\* the days of a calendar year
DiasDoAno(ano) ==
  IF (ano % 4 = 0 /\ ano % 100 # 0) \/ ano % 400 = 0 THEN 366 ELSE 365

\* the annual sums of the calendar years the series covers to their last
\* day only: the days of an incomplete last year are left out
RECURSIVE SomaAnual_so_anos_completos(_, _, _)
SomaAnual_so_anos_completos(serie, inicio, ano) ==
  IF inicio + DiasDoAno(ano) - 1 > Len(serie) THEN <<>>
  ELSE <<SumRange(serie, inicio, inicio + DiasDoAno(ano) - 1)>>
         \o SomaAnual_so_anos_completos(serie, inicio + DiasDoAno(ano), ano + 1)

\* groupby('Year').sum() of a daily series whose day inicio is the first
\* of January of ano
RECURSIVE SomaAnual(_, _, _)
SomaAnual(serie, inicio, ano) ==
  IF inicio > Len(serie) THEN <<>>
  ELSE LET fim == Min(Len(serie), inicio + DiasDoAno(ano) - 1)
       IN  <<SumRange(serie, inicio, fim)>> \o SomaAnual(serie, fim + 1, ano + 1)

\* tab 2, the base model: the daily table of the landfill and of
\* vermicomposting in CO2eq, its cumulated columns, the annual tables, and
\* the two totals the tab shows (with the number of calendar years of the
\* annual tables, the last cumulative reduction of the thesis table and the
\* sum of the daily column of thermophilic composting)
TabelaBase(umidade, anos_simulacao, ano_inicio, residuos_kg_dia, massa_exposta_kg, h_exposta) ==
  LET dias == anos_simulacao * DIAS_ANO
      params_base == <<umidade, T, DOC>>
      aterro == calcular_emissoes_aterro(params_base, dias, residuos_kg_dia,
                                         massa_exposta_kg, h_exposta)
      vermi == calcular_emissoes_vermi(params_base, dias, residuos_kg_dia)
      compost == calcular_emissoes_compostagem(params_base, dias, residuos_kg_dia)
      Somar(a, b) == [n \in 1..dias |-> a[n] + b[n]]
      Total_Aterro_tCO2eq_dia ==
        Somar(ParaTco2eq(aterro.ch4 \o <<>>, GWP_CH4_20) \o <<>>,
              ParaTco2eq(aterro.n2o \o <<>>, GWP_N2O_20) \o <<>>) \o <<>>
      Total_Vermi_tCO2eq_dia ==
        Somar(ParaTco2eq(vermi.ch4 \o <<>>, GWP_CH4_20) \o <<>>,
              ParaTco2eq(vermi.n2o \o <<>>, GWP_N2O_20) \o <<>>) \o <<>>
      Total_Compost_tCO2eq_dia ==
        Somar(ParaTco2eq(compost.ch4 \o <<>>, GWP_CH4_20) \o <<>>,
              ParaTco2eq(compost.n2o \o <<>>, GWP_N2O_20) \o <<>>) \o <<>>
      Total_Aterro_tCO2eq_acum == CumSum(Total_Aterro_tCO2eq_dia)
      Total_Vermi_tCO2eq_acum == CumSum(Total_Vermi_tCO2eq_dia)
      Reducao_tCO2eq_acum ==
        [n \in 1..dias |-> Total_Aterro_tCO2eq_acum[n] - Total_Vermi_tCO2eq_acum[n]]
      baseline == SomaAnual(Total_Aterro_tCO2eq_dia, 1, ano_inicio)
      projeto_unfccc == SomaAnual(Total_Compost_tCO2eq_dia, 1, ano_inicio)
      reducoes_unfccc ==
        [y \in 1..Len(baseline) |-> baseline[y] - projeto_unfccc[y]]
      acumulada_unfccc == CumSum(reducoes_unfccc \o <<>>)
      projeto_tese == SomaAnual(Total_Vermi_tCO2eq_dia, 1, ano_inicio)
      reducoes_tese ==
        [y \in 1..Len(baseline) |-> baseline[y] - projeto_tese[y]]
      acumulada_tese == CumSum(reducoes_tese \o <<>>)
  IN  [status |-> "ok",
       dias |-> dias,
       anos_calendario |-> Len(baseline),
       total_compost |-> SumSeq(Total_Compost_tCO2eq_dia),
       acumulada_tese |-> acumulada_tese[Len(baseline)],
       gwp_ch4 |-> GWP_CH4_20,
       gwp_n2o |-> GWP_N2O_20,
       total_aterro |-> Total_Aterro_tCO2eq_acum[dias],
       total_vermi |-> Total_Vermi_tCO2eq_acum[dias],
       total_evitado_tese |-> Reducao_tCO2eq_acum[dias],
       total_evitado_unfccc |-> acumulada_unfccc[Len(baseline)]]

(***************************************************************************)
(* The application: the values of the widgets and the results over them   *)
(***************************************************************************)
\* the largest number of Monte Carlo simulations (n_simulations) tried
MaxSimulacoes == 2

\* the largest number of numbers the Sobol sampling of the library takes
\* from the global generator
MaxConsumo == 1

\* the initial values of the sliders of tab 2: kg per day, exposed mass,
\* exposure hours
RESIDUOS_CONT == 100

MASSA_CONT == 100

HORAS_CONT == 8

\* the number of base samples that stands for n_samples
N_SAMPLES == 1

\* the values of the moisture slider of tab 2 (50..95, initially 85)
UmidadesCont == {50, 85}

\* datetime.now().year: a leap year and a common year
AnosInicio == {2024, 2025}

\* the widgets of tab 1: lot of 100 kg, moisture 50..95, temperature 25,
\* 50..3650 days
EntradasLote ==
  {<<RESIDUOS_CONT, u, T, d>> : u \in UmidadesCont,
                                d \in {DIAS_COMPOSTAGEM, DIAS_LOTE_PADRAO}}

\* dias = anos_simulacao * 365, with the least value of the slider
DiasCont == ANOS_MINIMO * DIAS_ANO

\* the parameter vectors the application evaluates: the base model, the
\* rows of the Sobol sample, the Monte Carlo draws
Pontos ==
  {<<u, T, DOC>> : u \in UmidadesCont}
    \cup {sample(problem_bounds, N_SAMPLES)[i] \o <<>> :
            i \in 1..Len(sample(problem_bounds, N_SAMPLES))}
    \cup PontosMC

\* executar_simulacao_completa over the parameter vectors, evaluated once
ResultadosTese ==
  [p \in Pontos |->
     executar_simulacao_completa(p, DiasCont, RESIDUOS_CONT, MASSA_CONT,
                                 HORAS_CONT)] @@ <<>>

\* executar_simulacao_unfccc over the parameter vectors, evaluated once
ResultadosUnfccc ==
  [p \in Pontos |->
     executar_simulacao_unfccc(p, DiasCont, RESIDUOS_CONT, MASSA_CONT,
                               HORAS_CONT)] @@ <<>>

\* the base tables of tab 2 over the widgets, evaluated once
TabelasBase ==
  [e \in UmidadesCont \X AnosInicio |->
     TabelaBase(e[1], ANOS_MINIMO, e[2], RESIDUOS_CONT, MASSA_CONT,
                HORAS_CONT)] @@ <<>>

\* the analyses of tab 1 over the widgets, evaluated once
AnalisesLote ==
  [e \in EntradasLote |-> AnaliseLote(e[1], e[2], e[3], e[4])] @@ <<>>

\* inicializar_session_state and the initial values of the widgets
EntradaInicial ==
  [run_analise_lote |-> FALSE,
   run_simulation |-> FALSE,
   lote |-> <<RESIDUOS_CONT, 85, T, DIAS_LOTE_PADRAO>>,
   umidade_cont |-> 85,
   ano_inicio |-> 2025,
   n_simulations |-> 1]

\* tab 2 before its simulation has run
ContVazio ==
  [base |-> Nenhum, sobol_tese |-> Nenhum, sobol_unfccc |-> Nenhum,
   mc_tese |-> Nenhum, mc_unfccc |-> Nenhum]

(***************************************************************************)
(* The application: the Sobol indices and the sensitivity table            *)
(***************************************************************************)
\* the outcomes as the analysis takes them: tenths of a tonne
Decitonelada == 10 ^ 5

\* the total-order estimate taken without the square
total_order_sem_quadrado(YA, YAB, n) ==
  n * SumSeq([i \in 1..Len(YA) |-> YA[i] - YAB[i]])

\* first_order(A, AB, B) of SALib: mean(B * (AB - A)) / var(A and B), on the
\* outcomes less their mean over the whole sample.  The value here is the
\* numerator over the denominator that every index of an analysis shares,
\* 2 * n * N * var(A and B), with n the size of the sample and soma the sum
\* of its outcomes.
first_order(YA, YAB, YB, soma, n) ==
  2 * SumSeq([i \in 1..Len(YA) |-> (n * YB[i] - soma) * (YAB[i] - YA[i])])

\* total_order(A, AB, B) of SALib: 0.5 * mean((A - AB) ** 2) / var(A and B),
\* over the same denominator
total_order(YA, YAB, n) ==
  n * SumSeq([i \in 1..Len(YA) |-> (YA[i] - YAB[i]) * (YA[i] - YAB[i])])

\* analyze(problem, Y): the outcomes of the rows A, AB_1..AB_D, BA_1..BA_D, B
\* of each base sample are taken apart and each parameter gets its
\* first-order and total-order index
analyze(Y, D, N) ==
  LET step == 2 * D + 2
      y == [i \in 1..Len(Y) |-> Y[i] \div Decitonelada]
      YA == [i \in 1..N |-> y[(i - 1) * step + 1]]
      YB == [i \in 1..N |-> y[i * step]]
      YAB(j) == [i \in 1..N |-> y[(i - 1) * step + 1 + j]]
  IN  [S1 |-> [j \in 1..D |-> first_order(YA, YAB(j), YB, SumSeq(y), Len(y))],
       ST |-> [j \in 1..D |-> total_order(YA, YAB(j), Len(y))]]

\* pd.DataFrame({'Parâmetro': names, 'S1': Si['S1'], 'ST': Si['ST']})
\* .sort_values('ST', ascending=False): a row goes after the rows of larger
\* ST and after the earlier rows of equal ST
TabelaSensibilidade(names, Si) ==
  LET D == Len(names)
      posicao(j) ==
        1 + Cardinality({k \in 1..D : \/ Si.ST[k] > Si.ST[j]
                                      \/ Si.ST[k] = Si.ST[j] /\ k < j})
  IN  [p \in 1..D |->
         LET j == CHOOSE j \in 1..D : posicao(j) = p
         IN  [parametro |-> names[j], S1 |-> Si.S1[j], ST |-> Si.ST[j]]]

(***************************************************************************)
(* The application: the fan-out of the simulations over a sample           *)
(***************************************************************************)
\* no fan-out is under way
ParaleloParado ==
  [fase |-> "parado", cenario |-> "none", linhas |-> <<>>, saidas |-> <<>>,
   fora_de_ordem |-> FALSE, results |-> Nenhum]

\* the simulation of one row: executar_simulacao_completa (tese) or
\* executar_simulacao_unfccc (unfccc) with the horizon, waste, exposed mass
\* and hours of the run
Simular(cenario, linha) ==
  IF cenario = "tese" THEN ResultadosTese[linha] ELSE ResultadosUnfccc[linha]

\* a simulation that did not return: the exception of the worker or of the
\* call
Falha == Raised("Exception")

\* the simulations that succeeded are kept and the failed ones dropped
Reunir_parcial(linhas, saidas) ==
  LET bons == SelectSeq([i \in 1..Len(linhas) |-> i],
                        LAMBDA i : i \in DOMAIN saidas
                                     /\ saidas[i].status = "ok")
  IN  [status |-> "ok",
       results |-> [j \in 1..Len(bons) |-> saidas[bons[j]].reducao_tco2eq]]

\* what Parallel(...)(...) or the loop hands to the analysis: the exception
\* of a failed simulation, raised again in the caller, or else the outcomes
\* in the order of the rows
Reunir(linhas, saidas) ==
  IF \E i \in DOMAIN saidas : saidas[i].status = "raised"
  THEN LET i == CHOOSE i \in DOMAIN saidas : saidas[i].status = "raised"
       IN  Raised(saidas[i].erro)
  ELSE [status |-> "ok",
        results |-> [i \in 1..Len(linhas) |-> saidas[i].reducao_tco2eq]]

(***************************************************************************)
(* The page before it is opened                                            *)
(***************************************************************************)
\* no session yet: st.session_state has no key, no run of the script has
\* started
PaginaFechada ==
  [pos |-> "fora", s |-> <<>>, clique |-> FALSE, buscas |-> 0, reruns |-> 0]

(***************************************************************************)
(* The calls: a caller applies one function to its arguments, reads the   *)
(* result and discards it                                                  *)
(***************************************************************************)
\* a simulation function that keeps its running sums in the profile array
\* it reads
Escrita_no_perfil(fn, m) ==
  IF fn \in {"calcular_emissoes_vermi", "executar_simulacao_completa"}
  THEN [m EXCEPT !.PERFIL_CH4_VERMI = CumSum(@)]
  ELSE IF fn \in {"calcular_emissoes_compostagem", "executar_simulacao_unfccc"}
  THEN [m EXCEPT !.PERFIL_CH4_THERMO = CumSum(@)]
  ELSE m

\* the arrays of the module after a call of fn: the functions index the
\* profiles and write only into the arrays they create (np.zeros, np.full,
\* the result of fftconvolve)
Escrita(fn, m) == m

Chamar(fn, a, r) ==
  /\ pc = "idle"
  /\ pc' = "done"
  /\ call' = [fn |-> fn, args |-> a]
  /\ ret' = r
  /\ modulo' = Escrita(fn, modulo)
  /\ UNCHANGED <<sessao, paralelo, pagina>>

Call_potencial_metano_aterro ==
  \E a \in ArgsLote :
    Chamar("calcular_potencial_metano_aterro", a,
           calcular_potencial_metano_aterro(a.residuos, a.umidade,
                                            a.temperatura, a.dias))

Call_vermicompostagem_lote ==
  \E a \in ArgsLote :
    Chamar("calcular_emissoes_vermicompostagem_lote", a,
           calcular_emissoes_vermicompostagem_lote(a.residuos, a.umidade,
                                                   Min(DIAS_COMPOSTAGEM, a.dias)))

Call_compostagem_lote ==
  \E a \in ArgsLote :
    Chamar("calcular_emissoes_compostagem_lote", a,
           calcular_emissoes_compostagem_lote(a.residuos, a.umidade,
                                              Min(DIAS_COMPOSTAGEM, a.dias)))

Call_pre_descarte ==
  \E a \in ArgsCompostagem :
    Chamar("calcular_emissoes_pre_descarte", a,
           calcular_emissoes_pre_descarte(21, a.dias, a.residuos))

Call_aterro ==
  \E a \in ArgsValidos \cup ArgsInvalidos \cup ArgsBorda :
    Chamar("calcular_emissoes_aterro", a,
           calcular_emissoes_aterro(Params(a), a.dias, a.residuos, a.massa, a.h))

Call_vermi ==
  \E a \in ArgsCompostagem :
    Chamar("calcular_emissoes_vermi", a,
           calcular_emissoes_vermi_em(modulo, Params(a), a.dias, a.residuos))

Call_compostagem ==
  \E a \in ArgsCompostagem :
    Chamar("calcular_emissoes_compostagem", a,
           calcular_emissoes_compostagem_em(modulo, Params(a), a.dias, a.residuos))

Call_executar_completa ==
  \E a \in ArgsValidos \cup ArgsInvalidos \cup ArgsBorda :
    Chamar("executar_simulacao_completa", a,
           executar_simulacao_completa_em(modulo, Params(a), a.dias, a.residuos, a.massa, a.h))

Call_executar_unfccc ==
  \E a \in ArgsValidos \cup ArgsInvalidos \cup ArgsBorda :
    Chamar("executar_simulacao_unfccc", a,
           executar_simulacao_unfccc_em(modulo, Params(a), a.dias, a.residuos, a.massa, a.h))

\* the caller drops the result: nothing of a call outlives it
Retornar ==
  /\ pc = "done"
  /\ pc' = "idle"
  /\ call' = [fn |-> "none", args |-> Args(0, 0, 0, 0, 0, 0, 0)]
  /\ ret' = Nenhum
  /\ UNCHANGED <<sessao, paralelo, modulo, pagina>>

Init ==
  /\ pc = "idle"
  /\ call = [fn |-> "none", args |-> Args(0, 0, 0, 0, 0, 0, 0)]
  /\ ret = Nenhum
  /\ gerador = Seed(SEMENTE)
  /\ fase = "parado"
  /\ entrada = EntradaInicial
  /\ lote = Nenhum
  /\ cont = ContVazio
  /\ anterior = Nenhum
  /\ paralelo = ParaleloParado
  /\ modulo = Modulo
  /\ pagina = PaginaFechada

Next ==
  \/ Call_potencial_metano_aterro
  \/ Call_vermicompostagem_lote
  \/ Call_compostagem_lote
  \/ Call_pre_descarte
  \/ Call_aterro
  \/ Call_vermi
  \/ Call_compostagem
  \/ Call_executar_completa
  \/ Call_executar_unfccc
  \/ Retornar

Spec == Init /\ [][Next]_vars

(***************************************************************************)
(* The simulation entry points over short horizons and over the horizons   *)
(* the application simulates                                               *)
(***************************************************************************)
\* the number of values of the slider that are tried
MaxPassosAnos == 1

\* dias = anos_simulacao * 365
DiasAplicacao ==
  {(ANOS_MINIMO + PASSO_ANOS * (i - 1)) * DIAS_ANO : i \in 1..MaxPassosAnos}

\* valid arguments over the short horizons and the horizons of the
\* application
ArgsHorizonte ==
  {Args(u, t, d, n, r, 100, 8) :
     u \in Umidades, t \in Temperaturas, d \in DOCs,
     n \in Dias \cup DiasAplicacao, r \in Residuos}

Horizonte_executar_completa ==
  \E a \in ArgsHorizonte :
    Chamar("executar_simulacao_completa", a,
           executar_simulacao_completa_em(modulo, Params(a), a.dias, a.residuos, a.massa, a.h))

Horizonte_executar_unfccc ==
  \E a \in ArgsHorizonte :
    Chamar("executar_simulacao_unfccc", a,
           executar_simulacao_unfccc_em(modulo, Params(a), a.dias, a.residuos, a.massa, a.h))

NextHorizonte ==
  \/ Horizonte_executar_completa
  \/ Horizonte_executar_unfccc
  \/ Retornar

SpecHorizonte == Init /\ [][NextHorizonte]_vars

(***************************************************************************)
(* The application: a run of the script after an interaction of the user   *)
(***************************************************************************)
\* an interaction (a widget moved, a button pressed) starts a run of the
\* script with the current values of the widgets: np.random.seed(50) at the
\* top of the module; a pressed button sets its flag of the session for
\* good; the outputs of the run before are gone
Interagir ==
  /\ fase = "parado"
  /\ \E botao \in {"nenhum", "btn_lote", "btn_cont"}, l \in EntradasLote,
        u \in UmidadesCont, a \in AnosInicio, n \in 1..MaxSimulacoes :
       LET rl == entrada.run_analise_lote \/ botao = "btn_lote"
           rs == entrada.run_simulation \/ botao = "btn_cont"
       IN  entrada' =
             [run_analise_lote |-> rl,
              run_simulation |-> rs,
              lote |-> IF rl THEN l ELSE EntradaInicial.lote,
              umidade_cont |-> IF rs THEN u ELSE EntradaInicial.umidade_cont,
              ano_inicio |-> IF rs THEN a ELSE EntradaInicial.ano_inicio,
              n_simulations |-> IF rs THEN n ELSE EntradaInicial.n_simulations]
  /\ gerador' = Seed(SEMENTE)
  /\ anterior' =
       IF cont.mc_unfccc.status = "ok"
       THEN [status |-> "ok", n |-> entrada.n_simulations,
             mc_tese |-> cont.mc_tese, mc_unfccc |-> cont.mc_unfccc]
       ELSE anterior
  /\ lote' = Nenhum
  /\ cont' = ContVazio
  /\ fase' = "tab1"
  /\ UNCHANGED <<chamada, paralelo, modulo, pagina>>

\* with tab1: the analysis of the lot, if run_analise_lote is set
Aba_lote ==
  /\ fase = "tab1"
  /\ lote' = IF entrada.run_analise_lote THEN AnalisesLote[entrada.lote]
             ELSE Nenhum
  /\ fase' = "tab2"
  /\ UNCHANGED <<chamada, paralelo, modulo, pagina, gerador, entrada, cont, anterior>>

\* with tab2: the base model and its tables, if run_simulation is set
Aba_cont ==
  /\ fase = "tab2"
  /\ IF entrada.run_simulation
     THEN /\ cont' = [cont EXCEPT !.base =
                        TabelasBase[<<entrada.umidade_cont, entrada.ano_inicio>>]]
          /\ fase' = "sobol_tese"
     ELSE /\ cont' = cont
          /\ fase' = "parado"
  /\ UNCHANGED <<chamada, paralelo, modulo, pagina, gerador, entrada, lote, anterior>>

\* np.random.seed(50); sample(problem_tese, n_samples), which may take
\* numbers from the global generator; executar_simulacao_completa over the
\* rows, results in the order of the rows
Sobol_tese ==
  /\ fase = "sobol_tese"
  /\ \E k \in 0..MaxConsumo : gerador' = Consumir(Seed(SEMENTE), k)
  /\ LET param_values == sample(problem_bounds, N_SAMPLES)
     IN  cont' = [cont EXCEPT !.sobol_tese =
                    [status |-> "ok",
                     param_values |-> param_values,
                     results |-> [i \in 1..Len(param_values) |->
                                    ResultadosTese[param_values[i]].reducao_tco2eq],
                     tabela |-> TabelaSensibilidade(problem_names,
                       analyze([i \in 1..Len(param_values) |->
                                  ResultadosTese[param_values[i]].reducao_tco2eq] \o <<>>,
                               Len(problem_bounds), N_SAMPLES))]]
  /\ fase' = "sobol_unfccc"
  /\ UNCHANGED <<chamada, paralelo, modulo, pagina, entrada, lote, anterior>>

\* the same with problem_unfccc and executar_simulacao_unfccc
Sobol_unfccc ==
  /\ fase = "sobol_unfccc"
  /\ \E k \in 0..MaxConsumo : gerador' = Consumir(Seed(SEMENTE), k)
  /\ LET param_values == sample(problem_bounds, N_SAMPLES)
     IN  cont' = [cont EXCEPT !.sobol_unfccc =
                    [status |-> "ok",
                     param_values |-> param_values,
                     results |-> [i \in 1..Len(param_values) |->
                                    ResultadosUnfccc[param_values[i]].reducao_tco2eq],
                     tabela |-> TabelaSensibilidade(problem_names,
                       analyze([i \in 1..Len(param_values) |->
                                  ResultadosUnfccc[param_values[i]].reducao_tco2eq] \o <<>>,
                               Len(problem_bounds), N_SAMPLES))]]
  /\ fase' = "mc_tese"
  /\ UNCHANGED <<chamada, paralelo, modulo, pagina, entrada, lote, anterior>>

\* Monte Carlo of the thesis scenario: gerar_parametros_mc_tese, then
\* executar_simulacao_completa for each draw, in order
MC_tese ==
  /\ fase = "mc_tese"
  /\ LET n == entrada.n_simulations
         g == gerar_parametros_mc_tese(gerador, n)
     IN  /\ gerador' = g.gerador
         /\ cont' = [cont EXCEPT !.mc_tese =
                       [status |-> "ok",
                        estado_inicial |-> gerador,
                        umidade_vals |-> g.umidade_vals,
                        temp_vals |-> g.temp_vals,
                        doc_vals |-> g.doc_vals,
                        results |-> [i \in 1..n |->
                          ResultadosTese[<<g.umidade_vals[i], g.temp_vals[i],
                                           g.doc_vals[i]>>].reducao_tco2eq],
                        resumo |-> ResumoMC([i \in 1..n |->
                          ResultadosTese[<<g.umidade_vals[i], g.temp_vals[i],
                                           g.doc_vals[i]>>].reducao_tco2eq] \o <<>>)]]
  /\ fase' = "mc_unfccc"
  /\ UNCHANGED <<chamada, paralelo, modulo, pagina, entrada, lote, anterior>>

\* Monte Carlo of the UNFCCC scenario: gerar_parametros_mc_unfccc, then
\* executar_simulacao_unfccc for each draw, in order; the run is over
MC_unfccc ==
  /\ fase = "mc_unfccc"
  /\ LET n == entrada.n_simulations
         g == gerar_parametros_mc_unfccc(gerador, n)
     IN  /\ gerador' = g.gerador
         /\ cont' = [cont EXCEPT !.mc_unfccc =
                       [status |-> "ok",
                        estado_inicial |-> gerador,
                        umidade_vals |-> g.umidade_vals,
                        temp_vals |-> g.temp_vals,
                        doc_vals |-> g.doc_vals,
                        results |-> [i \in 1..n |->
                          ResultadosUnfccc[<<g.umidade_vals[i], g.temp_vals[i],
                                             g.doc_vals[i]>>].reducao_tco2eq],
                        resumo |-> ResumoMC([i \in 1..n |->
                          ResultadosUnfccc[<<g.umidade_vals[i], g.temp_vals[i],
                                             g.doc_vals[i]>>].reducao_tco2eq] \o <<>>)]]
  /\ fase' = "parado"
  /\ UNCHANGED <<chamada, paralelo, modulo, pagina, entrada, lote, anterior>>

NextApp ==
  \/ Interagir
  \/ Aba_lote
  \/ Aba_cont
  \/ Sobol_tese
  \/ Sobol_unfccc
  \/ MC_tese
  \/ MC_unfccc

SpecApp == Init /\ [][NextApp]_vars

(***************************************************************************)
(* The application: the simulations of a sample, one by one.  The          *)
(* sensitivity analysis hands the rows to worker processes, which finish   *)
(* in any order; the Monte Carlo loop calls the simulation row after row.  *)
(* A simulation returns its scalar or ends with an exception.              *)
(***************************************************************************)
Cenarios == {"tese", "unfccc"}

\* the rows of gerar_parametros_mc_*(n)
LinhasMC(n) ==
  LET g == gerar_parametros_mc_tese(Seed(SEMENTE), n)
  IN  [i \in 1..n |-> <<g.umidade_vals[i], g.temp_vals[i], g.doc_vals[i]>>]

\* Parallel(n_jobs=-1)(delayed(executar_simulacao_*)(params, ...) for params
\* in param_values): the rows are handed out
Despachar_sobol ==
  /\ paralelo.fase = "parado"
  /\ \E c \in Cenarios :
       paralelo' = [ParaleloParado EXCEPT
                      !.fase = "paralelo", !.cenario = c,
                      !.linhas = sample(problem_bounds, N_SAMPLES)]
  /\ UNCHANGED <<chamada, sessao, modulo, pagina>>

\* a worker finishes the simulation of a row that is still out, with the
\* scalar or with an exception; the outcome is kept under the index of the
\* row
Trabalhador_termina ==
  /\ paralelo.fase = "paralelo"
  /\ \E i \in (1..Len(paralelo.linhas)) \ DOMAIN paralelo.saidas :
     \E falha \in BOOLEAN :
       paralelo' = [paralelo EXCEPT
          !.saidas = (i :> (IF falha THEN Falha
                            ELSE Simular(paralelo.cenario, paralelo.linhas[i])))
                     @@ paralelo.saidas,
          !.fora_de_ordem = paralelo.fora_de_ordem
                              \/ \E j \in DOMAIN paralelo.saidas : j > i]
  /\ UNCHANGED <<chamada, sessao, modulo, pagina>>

\* results_mc = [] before the loop over range(n_simulations)
Despachar_mc ==
  /\ paralelo.fase = "parado"
  /\ \E c \in Cenarios, n \in 1..MaxSimulacoes :
       paralelo' = [ParaleloParado EXCEPT
                      !.fase = "laco", !.cenario = c, !.linhas = LinhasMC(n)]
  /\ UNCHANGED <<chamada, sessao, modulo, pagina>>

\* one turn of the loop: results_mc.append(executar_simulacao_*(params, ...));
\* an exception of the call leaves the loop
MC_passo ==
  /\ paralelo.fase = "laco"
  /\ Len(paralelo.saidas) < Len(paralelo.linhas)
  /\ \A j \in DOMAIN paralelo.saidas : paralelo.saidas[j].status = "ok"
  /\ LET i == Len(paralelo.saidas) + 1
     IN  \E falha \in BOOLEAN :
           paralelo' = [paralelo EXCEPT
              !.saidas = Append(paralelo.saidas,
                                IF falha THEN Falha
                                ELSE Simular(paralelo.cenario, paralelo.linhas[i]))]
  /\ UNCHANGED <<chamada, sessao, modulo, pagina>>

\* the array the analysis receives: np.array(results) after every row has
\* its outcome, or the exception that ended the fan-out or the loop
Coletar ==
  /\ paralelo.fase \in {"paralelo", "laco"}
  /\ \/ DOMAIN paralelo.saidas = 1..Len(paralelo.linhas)
     \/ /\ paralelo.fase = "laco"
        /\ \E j \in DOMAIN paralelo.saidas : paralelo.saidas[j].status = "raised"
  /\ paralelo' = [paralelo EXCEPT
                    !.fase = "coletado",
                    !.results = Reunir(paralelo.linhas, paralelo.saidas)]
  /\ UNCHANGED <<chamada, sessao, modulo, pagina>>

\* the script run is over
Reiniciar ==
  /\ paralelo.fase = "coletado"
  /\ paralelo' = ParaleloParado
  /\ UNCHANGED <<chamada, sessao, modulo, pagina>>

NextParalelo ==
  \/ Despachar_sobol
  \/ Trabalhador_termina
  \/ Despachar_mc
  \/ MC_passo
  \/ Coletar
  \/ Reiniciar

SpecParalelo == Init /\ [][NextParalelo]_vars

(***************************************************************************)
(* The landfill CH4 kernel on its way to the emissions, for the kernels a  *)
(* rounding of the exponentials can give: values above, at and below zero. *)
(***************************************************************************)
\* kernels of three days with values of the size of the first days of
\* KernelCH4, of either sign, and zero
Kernels ==
  LET v == {0 - 16437, 0, 16437}
  IN  {<<a, b, c>> : a \in v, b \in v, c \in v}

\* the potential of a lot of 10 and of 100 kg at 25 Celsius, in mass units
Potenciais == {PotencialCH4(r, DOC, DOCfCalc(T)) : r \in {10, 100}}

\* lines 374 to 384 of calcular_potencial_metano_aterro
Etapa_lote ==
  \E kernel \in Kernels, p \in Potenciais :
    Chamar("EmissoesCH4Lote", [kernel |-> kernel, potencial |-> p],
           [status |-> "ok",
            emissoes_CH4 |-> EmissoesCH4Lote(kernel, p).emissoes_CH4])

\* lines 613 to 617 of calcular_emissoes_aterro
Etapa_continuo ==
  \E kernel \in Kernels, p \in Potenciais :
    Chamar("EmissoesCH4Continuo", [kernel |-> kernel, potencial |-> p],
           [status |-> "ok",
            emissoes_CH4 |-> EmissoesCH4Continuo(kernel, p, Len(kernel))])

NextKernel ==
  \/ Etapa_lote
  \/ Etapa_continuo
  \/ Retornar

SpecKernel == Init /\ [][NextKernel]_vars

(***************************************************************************)
(* The quotes of the carbon price and of the exchange rate.  Prices and    *)
(* rates are in hundredths (85.50 is 8550); a text is a sequence of        *)
(* characters; what the network gives is an input of the call.             *)
(***************************************************************************)
\* float(txt): the number in hundredths (further decimals dropped) of a
\* text of digits with at most one point, or ValueError for the empty text,
\* a text without a digit, a text with two points and a text with another
\* character
Float(txt) ==
  LET Digitos == <<"0", "1", "2", "3", "4", "5", "6", "7", "8", "9">>
      Valor(c) == (CHOOSE d \in 1..10 : Digitos[d] = c) - 1
      pontos == SelectSeq(txt, LAMBDA c : c = ".")
      p == IF Len(pontos) = 0 THEN Len(txt) + 1
           ELSE CHOOSE i \in 1..Len(txt) :
                  txt[i] = "." /\ \A j \in 1..(i - 1) : txt[j] # "."
      RECURSIVE Inteiro(_, _)
      Inteiro(i, acc) ==
        IF i >= p THEN acc ELSE Inteiro(i + 1, 10 * acc + Valor(txt[i]))
      Decimal(k) == IF p + k <= Len(txt) THEN Valor(txt[p + k]) ELSE 0
  IN  IF \/ Len(pontos) > 1
         \/ Len(txt) = Len(pontos)
         \/ \E i \in 1..Len(txt) :
              txt[i] # "." /\ \A d \in 1..10 : Digitos[d] # txt[i]
      THEN Raised("ValueError")
      ELSE [status |-> "ok",
            valor |-> 100 * Inteiro(1, 0) + 10 * Decimal(1) + Decimal(2)]

\* elemento.text.strip().replace(',', '') and then the characters that are
\* digits or points
LimparPreco(txt) ==
  SelectSeq(txt, LAMBDA c : c \in {"0", "1", "2", "3", "4", "5", "6", "7",
                                   "8", "9", "."})

\* obter_cotacao_carbono_investing(): (preco, moeda, contrato_info, sucesso,
\* fonte).  rede.resposta is what requests.get and raise_for_status do,
\* rede.elementos the texts of the elements the selectors find, in the order
\* of the selectors, rede.matches what the patterns find in the page.
obter_cotacao_carbono_investing(rede) ==
  LET RECURSIVE PorSeletor(_)
      PorSeletor(i) ==
        IF i > Len(rede.elementos) THEN Nenhum
        ELSE LET texto_preco == LimparPreco(rede.elementos[i])
                 preco == IF Len(texto_preco) = 0 THEN Raised("vazio")
                          ELSE Float(texto_preco)
             IN  IF preco.status = "ok" THEN preco ELSE PorSeletor(i + 1)
      RECURSIVE PorPadrao(_)
      PorPadrao(i) ==
        IF i > Len(rede.matches) THEN Nenhum
        ELSE LET preco == Float(SelectSeq(rede.matches[i], LAMBDA c : c # ","))
             IN  IF preco.status = "ok" /\ 5000 < preco.valor /\ preco.valor < 20000
                 THEN preco ELSE PorPadrao(i + 1)
      falha == [status |-> "ok", preco |-> "None", moeda |-> "None",
                sucesso |-> FALSE, fonte |-> "Investing.com"]
  IN  IF rede.resposta # "ok"
      THEN [falha EXCEPT !.fonte = "Investing.com - Erro"]
      ELSE IF PorSeletor(1).status = "ok"
      THEN [status |-> "ok", preco |-> PorSeletor(1).valor, moeda |-> "EUR",
            sucesso |-> TRUE, fonte |-> "Investing.com"]
      ELSE IF PorPadrao(1).status = "ok"
      THEN [status |-> "ok", preco |-> PorPadrao(1).valor, moeda |-> "EUR",
            sucesso |-> TRUE, fonte |-> "Investing.com"]
      ELSE falha

\* obter_cotacao_carbono(): the quote of Investing.com or the reference
\* 85.50
obter_cotacao_carbono(rede) ==
  LET r == obter_cotacao_carbono_investing(rede)
  IN  IF r.status = "ok" /\ r.sucesso THEN r
      ELSE [status |-> "ok", preco |-> 8550, moeda |-> "EUR",
            sucesso |-> FALSE, fonte |-> "Referencia"]

\* the first source of the exchange rate raises out of the function
obter_cotacao_euro_real_sem_except(rede) ==
  IF rede.awesome.resposta = "excecao" THEN Raised("RequestException")
  ELSE [status |-> "ok", cotacao |-> 550, sucesso |-> FALSE,
        fonte |-> "Referencia"]

\* obter_cotacao_euro_real(): (cotacao, moeda, sucesso, fonte).  Each API
\* answers with an exception, a status, and for status 200 a body that is
\* not JSON, lacks the key, or holds a value: a text for AwesomeAPI's bid,
\* a number for ExchangeRate-API's rate.  Both try blocks end in a bare
\* except.
obter_cotacao_euro_real(rede) ==
  LET bid == IF rede.awesome.resposta = "200" /\ rede.awesome.corpo = "valor"
             THEN Float(rede.awesome.valor)
             ELSE Raised("Exception")
      brl == IF rede.exchangerate.resposta = "200"
                  /\ rede.exchangerate.corpo = "valor"
             THEN [status |-> "ok", valor |-> rede.exchangerate.valor]
             ELSE Raised("Exception")
  IN  IF bid.status = "ok"
      THEN [status |-> "ok", cotacao |-> bid.valor, sucesso |-> TRUE,
            fonte |-> "AwesomeAPI"]
      ELSE IF brl.status = "ok"
      THEN [status |-> "ok", cotacao |-> brl.valor, sucesso |-> TRUE,
            fonte |-> "ExchangeRate-API"]
      ELSE [status |-> "ok", cotacao |-> 550, sucesso |-> FALSE,
            fonte |-> "Referencia"]

\* calcular_valor_creditos(emissoes_evitadas_tco2eq,
\* preco_carbono_por_tonelada, moeda, taxa_cambio): tonnes times hundredths
\* times hundredths, in 1e-4 of the currency
calcular_valor_creditos(emissoes_evitadas_tco2eq, preco_carbono_por_tonelada, moeda, taxa_cambio) ==
  [status |-> "ok",
   valor_total |-> emissoes_evitadas_tco2eq * preco_carbono_por_tonelada
                     * taxa_cambio]

\* the texts of a price on a page or in a body
Textos ==
  {<<"8", "5", ".", "1", "0">>, <<"8", "5", ",", "1", "0">>,
   <<"n", "/", "a">>, <<"1", ".", "2", ".", "3">>, <<"3", "0", "0">>,
   <<",">>}

\* what the network gives to obter_cotacao_carbono_investing
Paginas ==
  {[resposta |-> r, elementos |-> <<>>, matches |-> <<>>] :
     r \in {"excecao", "http_erro"}}
    \cup {[resposta |-> "ok", elementos |-> e, matches |-> m] :
            e \in {<<>>} \cup {<<t>> : t \in Textos}
                    \cup {<<u, t>> : u \in {<<"n", "/", "a">>, <<"1", ".", "2", ".", "3">>},
                                     t \in Textos},
            m \in {<<>>, <<<<"8", "5">>>>, <<<<",">>, <<"1", ",", "0", "5">>>>,
                   <<<<"3", "0", "0">>>>}}

\* what the network gives to obter_cotacao_euro_real
RespostasApi ==
  LET Awesome ==
        {[resposta |-> r, corpo |-> "nenhum", valor |-> <<>>] :
           r \in {"excecao", "500"}}
          \cup {[resposta |-> "200", corpo |-> c, valor |-> <<>>] :
                  c \in {"nao_json", "sem_chave"}}
          \cup {[resposta |-> "200", corpo |-> "valor", valor |-> t] :
                  t \in {<<"5", ".", "4", "3">>, <<"6", ".", "0", "1">>,
                         <<"n", "/", "a">>}}
      ExchangeRate ==
        {[resposta |-> r, corpo |-> "nenhum", valor |-> 0] :
           r \in {"excecao", "500"}}
          \cup {[resposta |-> "200", corpo |-> c, valor |-> 0] :
                  c \in {"nao_json", "sem_chave"}}
          \cup {[resposta |-> "200", corpo |-> "valor", valor |-> 561]}
  IN  {[awesome |-> a, exchangerate |-> x] : a \in Awesome, x \in ExchangeRate}

Call_cotacao_carbono ==
  \E rede \in Paginas :
    Chamar("obter_cotacao_carbono", rede, obter_cotacao_carbono(rede))

Call_cotacao_euro_real ==
  \E rede \in RespostasApi :
    Chamar("obter_cotacao_euro_real", rede, obter_cotacao_euro_real(rede))

Call_valor_creditos ==
  \E e \in {-3, 0, 12}, p \in {8550, 8510}, t \in {100, 550, 543} :
    Chamar("calcular_valor_creditos",
           [emissoes |-> e, preco |-> p, moeda |-> "EUR", taxa |-> t],
           calcular_valor_creditos(e, p, "EUR", t))

NextCotacao ==
  \/ Call_cotacao_carbono
  \/ Call_cotacao_euro_real
  \/ Call_valor_creditos
  \/ Retornar

SpecCotacao == Init /\ [][NextCotacao]_vars

(***************************************************************************)
(* The quotes in the sidebar: st.session_state over the runs of the        *)
(* script.  A session state is a function from the keys that are defined   *)
(* to their values.                                                        *)
(***************************************************************************)
\* the largest number of fetches of exibir_cotacao_carbono followed between
\* two clicks on the refresh button
MaxBuscas == 2

\* st.session_state.get(chave, padrao)
Get(s, chave, padrao) == IF chave \in DOMAIN s THEN s[chave] ELSE padrao

\* st.session_state.chave = valor, for the keys of the record r
Atribuir(s, r) == r @@ s

\* if chave not in st.session_state: st.session_state.chave = valor, for
\* the keys of the record r
Iniciar(s, r) == s @@ r

\* the results obter_cotacao_carbono and obter_cotacao_euro_real can have,
\* over what the network gives
Cotacoes == {obter_cotacao_carbono(rede) : rede \in Paginas}

Cambios == {obter_cotacao_euro_real(rede) : rede \in RespostasApi}

\* inicializar_session_state(): the quotes are fetched when their keys are
\* missing, then every flag that is missing is set to False
inicializar_session_state(s, carbono, euro) ==
  LET s1 == IF "preco_carbono" \notin DOMAIN s
            THEN Atribuir(s, [preco_carbono |-> carbono.preco,
                              moeda_carbono |-> carbono.moeda,
                              fonte_cotacao |-> carbono.fonte])
            ELSE s
      s2 == IF "taxa_cambio" \notin DOMAIN s1
            THEN Atribuir(s1, [taxa_cambio |-> euro.cotacao, moeda_real |-> "R$"])
            ELSE s1
  IN  Iniciar(s2, [moeda_real |-> "R$", cotacao_atualizada |-> FALSE,
                   run_simulation |-> FALSE, mostrar_atualizacao |-> FALSE,
                   cotacao_carregada |-> FALSE, run_analise_lote |-> FALSE])

\* the keys the three metrics and the expander of the sidebar read
ChavesDasMetricas ==
  {"preco_carbono", "moeda_carbono", "taxa_cambio", "moeda_real", "fonte_cotacao"}

\* exibir_cotacao_carbono() whose refresh leaves mostrar_atualizacao and
\* cotacao_atualizada as they are
exibir_cotacao_carbono_sem_reset(s, clique, carbono, euro) ==
  LET s1 == IF ~Get(s, "cotacao_carregada", FALSE)
            THEN Atribuir(s, [mostrar_atualizacao |-> TRUE, cotacao_carregada |-> TRUE])
            ELSE s
      s2 == IF clique
            THEN Atribuir(s1, [cotacao_atualizada |-> TRUE, mostrar_atualizacao |-> TRUE])
            ELSE s1
  IN  IF Get(s2, "mostrar_atualizacao", FALSE)
      THEN [s |-> Atribuir(s2, [preco_carbono |-> carbono.preco,
                                moeda_carbono |-> carbono.moeda,
                                taxa_cambio |-> euro.cotacao,
                                moeda_real |-> "R$",
                                fonte_cotacao |-> carbono.fonte]),
            buscas |-> 1, rerun |-> TRUE, fim |-> "rerun"]
      ELSE [s |-> s2, buscas |-> 0, rerun |-> FALSE,
            fim |-> IF ChavesDasMetricas \subseteq DOMAIN s2
                    THEN "metricas" ELSE "AttributeError"]

\* exibir_cotacao_carbono(): the first run of a session and a click on the
\* button ask for a refresh; a refresh fetches the two quotes, stores them,
\* resets the two flags and ends the run with st.rerun(); otherwise the
\* metrics are shown from the session state (a key that is missing raises).
\* clique is what st.button returns in this run.
exibir_cotacao_carbono(s, clique, carbono, euro) ==
  LET s1 == IF ~Get(s, "cotacao_carregada", FALSE)
            THEN Atribuir(s, [mostrar_atualizacao |-> TRUE, cotacao_carregada |-> TRUE])
            ELSE s
      s2 == IF clique
            THEN Atribuir(s1, [cotacao_atualizada |-> TRUE, mostrar_atualizacao |-> TRUE])
            ELSE s1
  IN  IF Get(s2, "mostrar_atualizacao", FALSE)
      THEN [s |-> Atribuir(s2, [preco_carbono |-> carbono.preco,
                                moeda_carbono |-> carbono.moeda,
                                taxa_cambio |-> euro.cotacao,
                                moeda_real |-> "R$",
                                fonte_cotacao |-> carbono.fonte,
                                mostrar_atualizacao |-> FALSE,
                                cotacao_atualizada |-> FALSE]),
            buscas |-> 1, rerun |-> TRUE, fim |-> "rerun"]
      ELSE [s |-> s2, buscas |-> 0, rerun |-> FALSE,
            fim |-> IF ChavesDasMetricas \subseteq DOMAIN s2
                    THEN "metricas" ELSE "AttributeError"]

\* the browser opens the page: a session with no key, and the first run of
\* the script starts
Abrir_pagina ==
  /\ pagina.pos = "fora"
  /\ pagina' = [pagina EXCEPT !.pos = "script"]
  /\ UNCHANGED <<chamada, sessao, paralelo, modulo>>

\* the top of a run of the script: inicializar_session_state(), with what
\* its requests return when it makes them
Inicializar_sessao ==
  /\ pagina.pos = "script"
  /\ \E carbono \in Cotacoes, euro \in Cambios :
       pagina' = [pagina EXCEPT
                    !.pos = "sidebar",
                    !.s = inicializar_session_state(pagina.s, carbono, euro)]
  /\ UNCHANGED <<chamada, sessao, paralelo, modulo>>

\* the run reaches exibir_cotacao_carbono() in the sidebar, with what its
\* requests return when it makes them; st.rerun() ends the run and starts
\* the next one, in which the button returns False
Exibir_cotacao ==
  /\ pagina.pos = "sidebar"
  /\ pagina.buscas < MaxBuscas
  /\ \E carbono \in Cotacoes, euro \in Cambios :
       LET r == exibir_cotacao_carbono(pagina.s, pagina.clique, carbono, euro)
       IN  pagina' = [pos |-> IF r.rerun THEN "script" ELSE r.fim,
                      s |-> r.s,
                      clique |-> FALSE,
                      buscas |-> pagina.buscas + r.buscas,
                      reruns |-> pagina.reruns + (IF r.rerun THEN 1 ELSE 0)]
  /\ UNCHANGED <<chamada, sessao, paralelo, modulo>>

\* the user clicks on "Atualizar Cotações": the script runs again and the
\* button returns True in that run
Clicar_atualizar ==
  /\ pagina.pos = "metricas"
  /\ pagina' = [pagina EXCEPT !.pos = "script", !.clique = TRUE,
                              !.buscas = 0, !.reruns = 0]
  /\ UNCHANGED <<chamada, sessao, paralelo, modulo>>

\* the user changes another widget: the script runs again
Outro_widget ==
  /\ pagina.pos = "metricas"
  /\ pagina' = [pagina EXCEPT !.pos = "script"]
  /\ UNCHANGED <<chamada, sessao, paralelo, modulo>>

NextPagina ==
  \/ Abrir_pagina
  \/ Inicializar_sessao
  \/ Exibir_cotacao
  \/ Clicar_atualizar
  \/ Outro_widget

SpecPagina == Init /\ [][NextPagina]_vars

\* a run of the script that has started goes on: the requests have
\* timeouts, and the server runs the script to its end or to its rerun
SpecPaginaJusta ==
  SpecPagina /\ WF_vars(Inicializar_sessao) /\ WF_vars(Exibir_cotacao)

(***************************************************************************)
(* Properties of the calls                                                 *)
(***************************************************************************)
Retornou(fns) == pc = "done" /\ call.fn \in fns

Ok == ret.status = "ok"

NaoNegativa(serie) == \A n \in 1..Len(serie) : serie[n] >= 0

Nula(serie) == \A n \in 1..Len(serie) : serie[n] = 0

\* the functions that return a CH4 and a N2O series
Continuas ==
  {"calcular_emissoes_aterro", "calcular_emissoes_vermi",
   "calcular_emissoes_compostagem"}

\* the functions of the single-lot analysis
Lotes ==
  {"calcular_potencial_metano_aterro", "calcular_emissoes_vermicompostagem_lote",
   "calcular_emissoes_compostagem_lote"}

\* the simulation entry points
Entradas ==
  Continuas \cup {"executar_simulacao_completa", "executar_simulacao_unfccc"}

\* C1: the landfill CH4 kernel is not renormalised.  In
\* calcular_potencial_metano_aterro and in calcular_emissoes_aterro, for the
\* horizon D of the call, the kernel summed over days 1..D is strictly below
\* 1 (by more than the rounding of its D terms) and strictly below the kernel summed over days 1..D+1; the returned
\* values carry that sum (fracao_total_emitida; the last CH4 value of the
\* continuous series is the daily potential times it, plus pre-disposal).
C1_KernelNaoNormalizado ==
  /\ Retornou({"calcular_potencial_metano_aterro"}) =>
       LET D == call.args.dias
           depois == calcular_potencial_metano_aterro(
                       call.args.residuos, call.args.umidade,
                       call.args.temperatura, D + 1)
       IN  /\ ret.fracao_total_emitida = SumSeq(Maximum0(KernelCH4(D) \o <<>>))
           /\ ret.fracao_total_emitida + D < S
           /\ depois.fracao_total_emitida > ret.fracao_total_emitida
  /\ (Retornou({"calcular_emissoes_aterro"}) /\ Ok /\ call.args.dias >= 1) =>
       LET D == call.args.dias
           soma == SumSeq(KernelCH4(D) \o <<>>)
           potencial == PotencialCH4(call.args.residuos, call.args.doc,
                                     DOCfCalc(call.args.temperatura))
           pre == calcular_emissoes_pre_descarte(21, D, call.args.residuos)
       IN  /\ soma + D < S
           /\ SumSeq(KernelCH4(D + 1) \o <<>>) > soma
           /\ ret.ch4[D] = MulS(potencial, soma) + pre.ch4[D]

\* C1 happens: a landfill call over 50 days returned, and the kernel summed
\* to a fraction strictly between 0 and 1
C1_Witness ==
  /\ Retornou({"calcular_emissoes_aterro"})
  /\ Ok
  /\ call.args.dias = DIAS_COMPOSTAGEM
  /\ SumSeq(KernelCH4(DIAS_COMPOSTAGEM) \o <<>>) \in 1..(S - 1)

\* C2: for every valid input (moisture in (0,1), DOC in (0,1), waste mass
\* > 0, horizon > 0, temperature of the range), every element of every
\* series a pathway returns (continuous or single lot) is >= 0.
C2_NaoNegatividade ==
  /\ (Retornou(Continuas) /\ Valido(call.args) /\ call.args.residuos > 0) =>
       /\ Ok
       /\ NaoNegativa(ret.ch4)
       /\ NaoNegativa(ret.n2o)
  /\ Retornou(Lotes) =>
       /\ Ok
       /\ NaoNegativa(ret.emissoes_CH4)

\* C2 happens: a landfill call with valid arguments returned a series of the
\* full horizon with a positive first value
C2_Witness ==
  /\ Retornou({"calcular_emissoes_aterro"})
  /\ Valido(call.args)
  /\ call.args.residuos > 0
  /\ Ok
  /\ Len(ret.ch4) = MaxDias
  /\ ret.ch4[1] > 0
  /\ ret.n2o[1] > 0

\* the moisture, temperature and DOC of a call are in the realistic ranges
\* (0.40..0.95, 15..45 Celsius, 0.10..0.30), its waste mass and its horizon
\* are positive
Realista(a) ==
  /\ a.umidade \in 40..95
  /\ a.temperatura \in 15..45
  /\ a.doc \in 10..30
  /\ a.residuos > 0
  /\ a.dias > 0

\* the two functions that return the avoided emissions
Evitadas == {"executar_simulacao_completa", "executar_simulacao_unfccc"}

\* C3 as stated: for every call of executar_simulacao_completa or
\* executar_simulacao_unfccc in the realistic ranges, with any horizon > 0,
\* the landfill total is >= the total of the treatment and the avoided
\* emissions returned are >= 0.
C3_EvitadasNaoNegativas ==
  (Retornou(Evitadas) /\ Realista(call.args)) =>
    /\ Ok
    /\ ret.total_aterro >= ret.total_projeto
    /\ ret.reducao_tco2eq >= 0

\* C3, amended: for every call of executar_simulacao_completa or
\* executar_simulacao_unfccc in the realistic ranges whose horizon is one the
\* application simulates (at least 5 years of 365 days), the landfill total
\* is >= the total of the treatment and the avoided emissions are >= 0.
C3_EvitadasNaoNegativasNaAplicacao ==
  (Retornou(Evitadas) /\ Realista(call.args)
     /\ call.args.dias >= ANOS_MINIMO * DIAS_ANO) =>
    /\ Ok
    /\ ret.total_aterro >= ret.total_projeto
    /\ ret.reducao_tco2eq >= 0

\* C3 happens: the thermophilic comparison over 5 years returned, with the
\* default moisture, temperature and DOC, a positive total of the treatment
\* and positive avoided emissions
C3_Witness ==
  /\ Retornou({"executar_simulacao_unfccc"})
  /\ Realista(call.args)
  /\ call.args.dias = ANOS_MINIMO * DIAS_ANO
  /\ call.args.umidade = 85
  /\ call.args.temperatura = T
  /\ call.args.doc = DOC
  /\ Ok
  /\ ret.total_projeto > 0
  /\ ret.reducao_tco2eq > 0

\* C4: every simulation entry point raises on an argument outside its
\* domain (moisture not in (0,1), negative waste mass, non-positive horizon)
\* and returns no series and no scalar.
C4_RejeitaInvalidos ==
  (Retornou(Entradas) /\ ~Valido(call.args)) => ret.status = "raised"

\* C5: with a daily waste mass of 0, calcular_emissoes_aterro,
\* calcular_emissoes_vermi and calcular_emissoes_compostagem complete
\* normally and return two series of horizon_days zeros.
C5_ResiduoZero ==
  (Retornou(Continuas) /\ call.args.residuos = 0) =>
    /\ Ok
    /\ Len(ret.ch4) = call.args.dias
    /\ Len(ret.n2o) = call.args.dias
    /\ Nula(ret.ch4)
    /\ Nula(ret.n2o)

\* the rounding of n products total * weight, each weight being itself
\* rounded to 1/S
Tolerancia(total, n) == n + (Abs(total) * n) \div S + 1

\* C6: mass conservation of a single lot.  The series of
\* calcular_emissoes_vermicompostagem_lote and of
\* calcular_emissoes_compostagem_lote has 50 values whose sum is the returned
\* total of the lot, to the rounding of its 50 terms; the total is
\* residuos_kg * TOC * CH4_C_FRAC * (16/12) * (1 - umidade), which for 100 kg
\* at moisture 0.85 under vermicomposting is 0.011336 kg; and each
\* module-level profile sums to 1, to the rounding of its 50 weights.
C6_ConservacaoDeMassa ==
  /\ Retornou({"calcular_emissoes_vermicompostagem_lote",
               "calcular_emissoes_compostagem_lote"}) =>
       LET frac == IF call.fn = "calcular_emissoes_vermicompostagem_lote"
                   THEN 13 ELSE 60
           total == ret.ch4_total_por_lote
       IN  /\ Len(ret.emissoes_CH4) = 50
           /\ total * 1200 <= call.args.residuos * (100 - call.args.umidade)
                                * 436 * frac * 16
           /\ (total + 1) * 1200 > call.args.residuos * (100 - call.args.umidade)
                                     * 436 * frac * 16
           /\ Abs(SumSeq(ret.emissoes_CH4) - total) <= Tolerancia(total, 50)
           /\ (/\ call.fn = "calcular_emissoes_vermicompostagem_lote"
               /\ call.args.residuos = 100
               /\ call.args.umidade = 85) => total = 113360
  /\ \A perfil \in {PERFIL_CH4_VERMI, PERFIL_N2O_VERMI,
                    PERFIL_CH4_THERMO, PERFIL_N2O_THERMO} :
       /\ Len(perfil) = 50
       /\ Abs(SumSeq(perfil) - S) <= Len(perfil)

\* C6 happens: the vermicomposting lot of 100 kg at moisture 0.85 returned
\* its 50 values and its total
C6_Witness ==
  /\ Retornou({"calcular_emissoes_vermicompostagem_lote"})
  /\ call.args.residuos = 100
  /\ call.args.umidade = 85
  /\ Len(ret.emissoes_CH4) = 50
  /\ ret.ch4_total_por_lote > 0

\* C7: for a single lot in the landfill, fracao_total_emitida over D days
\* is the closed form 1 - exp(-0.06 * D / 365), and the emitted CH4 summed
\* over the D days is that fraction of potencial_CH4_total (to the rounding
\* of D products); for D = 365 the fraction is 1 - exp(-0.06) = 0.05823547
\* (5.82 %), to 1e-6.
C7_FracaoForma ==
  Retornou({"calcular_potencial_metano_aterro"}) =>
    LET D == call.args.dias
    IN  /\ ret.fracao_total_emitida = S - ExpNeg(MulDiv(k_ano, D, 365))
        /\ Abs(SumSeq(ret.emissoes_CH4)
                 - MulS(ret.potencial_CH4_total, ret.fracao_total_emitida)) <= D
        /\ D = 365 => Abs(ret.fracao_total_emitida - 5823547) <= 100

\* C7 happens: the lot analysis over 365 days returned a fraction between
\* 5.8 % and 5.9 % of a positive potential
C7_Witness ==
  /\ Retornou({"calcular_potencial_metano_aterro"})
  /\ call.args.dias = 365
  /\ ret.potencial_CH4_total > 0
  /\ ret.fracao_total_emitida > 5800000
  /\ ret.fracao_total_emitida < 5900000

(***************************************************************************)
(* Properties of the application                                           *)
(***************************************************************************)
\* C8: every conversion of a gas mass to CO2eq uses CH4 = 79.7 and
\* N2O = 273.  The financial valuation of the single lot (tab 1) values the
\* avoided CH4 with GWP_CH4_20, and the daily table of tab 2 with
\* GWP_CH4_20 and GWP_N2O_20, as executar_simulacao_completa and
\* executar_simulacao_unfccc do; no CH4 mass of a run is valued with
\* another factor.
C8_GWPFixos ==
  /\ lote.status = "ok" =>
       /\ lote.gwp_ch4 = GWP_CH4_20
       /\ lote.total_evitado_vermi_tco2eq =
            Tco2eq(lote.aterro_acumulado - lote.vermi_acumulado, 0,
                   GWP_CH4_20, GWP_N2O_20)
       /\ lote.total_evitado_compost_tco2eq =
            Tco2eq(lote.aterro_acumulado - lote.compost_acumulado, 0,
                   GWP_CH4_20, GWP_N2O_20)
  /\ cont.base.status = "ok" =>
       /\ cont.base.gwp_ch4 = GWP_CH4_20
       /\ cont.base.gwp_n2o = GWP_N2O_20

\* C9: the avoided total of the daily table of tab 2 (the last value of
\* Reducao_tCO2eq_acum) equals the value executar_simulacao_completa returns
\* for the same parameters, horizon and waste mass; so do the two totals it
\* is the difference of.  Equal means to the rounding of the daily
\* conversions: the table converts each gas apart and the function their
\* sum, which differ by less than one unit (1e-6 t) per day.
C9_AgregacaoIndependente ==
  cont.base.status = "ok" =>
    LET e == executar_simulacao_completa(<<entrada.umidade_cont, T, DOC>>,
                                         cont.base.dias, RESIDUOS_CONT,
                                         MASSA_CONT, HORAS_CONT)
        f == ResultadosTese[<<entrada.umidade_cont, T, DOC>>]
    IN  /\ fase = "sobol_tese" => e = f
        /\ f.status = "ok"
        /\ Abs(cont.base.total_evitado_tese - f.reducao_tco2eq) <= cont.base.dias
        /\ Abs(cont.base.total_aterro - f.total_aterro) <= cont.base.dias
        /\ Abs(cont.base.total_vermi - f.total_projeto) <= cont.base.dias

\* C9 happens: the table of a run over 5 years at moisture 0.85 is built,
\* with positive totals and positive avoided emissions
C9_Witness ==
  /\ cont.base.status = "ok"
  /\ cont.base.dias = ANOS_MINIMO * DIAS_ANO
  /\ entrada.umidade_cont = 85
  /\ cont.base.total_vermi > 0
  /\ cont.base.total_evitado_tese > 0

\* the arrays of a Monte Carlo phase: the draws and the outcomes
Saida(m) == <<m.umidade_vals, m.temp_vals, m.doc_vals, m.results>>

\* C10: each Monte Carlo phase draws from a generator seeded anew with 50:
\* its first draw is the first number after the seed, whatever the Sobol
\* phases took from the generator; and two executions of a Monte Carlo
\* phase with the same number of simulations (and the same deterministic
\* inputs) have the same draws and the same outcome array.
C10_Reprodutibilidade ==
  /\ cont.mc_tese.status = "ok" =>
       /\ cont.mc_tese.umidade_vals[1] = Uniform(Avancar(Seed(SEMENTE)))
       /\ Len(cont.mc_tese.results) = entrada.n_simulations
       /\ (anterior.status = "ok" /\ anterior.n = entrada.n_simulations) =>
            Saida(cont.mc_tese) = Saida(anterior.mc_tese)
  /\ cont.mc_unfccc.status = "ok" =>
       /\ cont.mc_unfccc.umidade_vals[1] = Uniform(Avancar(Seed(SEMENTE)))
       /\ Len(cont.mc_unfccc.results) = entrada.n_simulations
       /\ (anterior.status = "ok" /\ anterior.n = entrada.n_simulations) =>
            Saida(cont.mc_unfccc) = Saida(anterior.mc_unfccc)

\* C10 happens: two runs of the script with the same number of simulations
\* (more than one) reached the Monte Carlo of the thesis scenario with the
\* generator in different states, and both finished
C10_Witness ==
  /\ fase = "parado"
  /\ cont.mc_unfccc.status = "ok"
  /\ anterior.status = "ok"
  /\ anterior.n = entrada.n_simulations
  /\ entrada.n_simulations > 1
  /\ anterior.mc_tese.estado_inicial # cont.mc_tese.estado_inicial
  /\ Saida(cont.mc_tese) = Saida(anterior.mc_tese)

\* the summaries of a Monte Carlo outcome array that must be reported
Estatisticas ==
  {"media", "mediana", "desvio_padrao", "intervalo_90", "intervalo_95"}

\* C11: for each Monte Carlo scenario (thesis and UNFCCC) the summary the
\* driver computes of the outcome array has all of: the mean, the median,
\* the standard deviation, a 90% percentile interval and a 95% percentile
\* interval.
C11_ResumoCompleto ==
  /\ cont.mc_tese.status = "ok" =>
       Estatisticas \subseteq DOMAIN cont.mc_tese.resumo
  /\ cont.mc_unfccc.status = "ok" =>
       Estatisticas \subseteq DOMAIN cont.mc_unfccc.resumo


\* C12: the array a sensitivity fan-out or a Monte Carlo loop hands to the
\* analysis has one entry per sampled row, entry i being the outcome of the
\* simulation of row i whatever the order in which the simulations
\* finished; when a simulation failed, the analysis gets the exception and
\* no array
C12_UmaSaidaPorLinha ==
  paralelo.fase = "coletado" =>
    IF \E i \in DOMAIN paralelo.saidas : paralelo.saidas[i].status = "raised"
    THEN paralelo.results.status = "raised"
    ELSE /\ paralelo.results.status = "ok"
         /\ Len(paralelo.results.results) = Len(paralelo.linhas)
         /\ \A i \in 1..Len(paralelo.linhas) :
              paralelo.results.results[i]
                = Simular(paralelo.cenario, paralelo.linhas[i]).reducao_tco2eq

\* a fan-out whose workers finished out of the order of the rows was
\* collected, every simulation having returned
C12_Witness ==
  /\ paralelo.fase = "coletado"
  /\ paralelo.fora_de_ordem
  /\ paralelo.results.status = "ok"
  /\ Len(paralelo.results.results) = Len(sample(problem_bounds, N_SAMPLES))
  /\ \E i, j \in 1..Len(paralelo.linhas) :
       paralelo.results.results[i] # paralelo.results.results[j]

\* what the call c returns when it is the only call made after the script
\* has built the module
Sozinha(c) ==
  LET a == c.args
  IN  CASE c.fn = "calcular_emissoes_pre_descarte" ->
             calcular_emissoes_pre_descarte(21, a.dias, a.residuos)
        [] c.fn = "calcular_emissoes_aterro" ->
             calcular_emissoes_aterro(Params(a), a.dias, a.residuos, a.massa, a.h)
        [] c.fn = "calcular_emissoes_vermi" ->
             calcular_emissoes_vermi(Params(a), a.dias, a.residuos)
        [] c.fn = "calcular_emissoes_compostagem" ->
             calcular_emissoes_compostagem(Params(a), a.dias, a.residuos)
        [] c.fn = "executar_simulacao_completa" ->
             executar_simulacao_completa(Params(a), a.dias, a.residuos, a.massa, a.h)
        [] c.fn = "executar_simulacao_unfccc" ->
             executar_simulacao_unfccc(Params(a), a.dias, a.residuos, a.massa, a.h)

Simulacoes ==
  {"calcular_emissoes_pre_descarte", "calcular_emissoes_aterro",
   "calcular_emissoes_vermi", "calcular_emissoes_compostagem",
   "executar_simulacao_completa", "executar_simulacao_unfccc"}

TaxaDecaimento == {"k", "k_ano", "taxa_decaimento", "decay_rate"}

\* C14: the decay rate is one of the sampled parameters of the sensitivity
\* problems, next to the temperature and the degradable carbon: every row of
\* a sample has a value for it
C14_TaxaDecaimentoAmostrada ==
  /\ cont.sobol_tese.status = "ok" =>
       /\ \E j \in 1..Len(problem_names) : problem_names[j] \in TaxaDecaimento
       /\ \A i \in 1..Len(cont.sobol_tese.param_values) :
            Len(cont.sobol_tese.param_values[i]) = Len(problem_names)
  /\ cont.sobol_unfccc.status = "ok" =>
       /\ \E j \in 1..Len(problem_names) : problem_names[j] \in TaxaDecaimento
       /\ \A i \in 1..Len(cont.sobol_unfccc.param_values) :
            Len(cont.sobol_unfccc.param_values[i]) = Len(problem_names)

\* the network gave obter_cotacao_carbono no page
SemPagina(rede) == rede.resposta # "ok" \/ (rede.elementos = <<>> /\ rede.matches = <<>>)

\* the network gave obter_cotacao_euro_real no body with a value
SemCambio(rede) ==
  /\ rede.awesome.resposta # "200" \/ rede.awesome.corpo # "valor"
  /\ rede.exchangerate.resposta # "200" \/ rede.exchangerate.corpo # "valor"

\* C15: whatever the network does, obter_cotacao_carbono and
\* obter_cotacao_euro_real return; they return the reference (85.50, 5.50)
\* with the flag False when every source failed, and whenever the flag is
\* False; with the flag True the source is a live one, which answered;
\* calcular_valor_creditos returns the product of its three numbers
C15_CotacaoDegradaParaReferencia ==
  pc = "done" =>
    /\ call.fn = "obter_cotacao_carbono" =>
         /\ ret.status = "ok"
         /\ SemPagina(call.args) => ~ret.sucesso
         /\ ~ret.sucesso => ret.preco = 8550 /\ ret.fonte = "Referencia"
         /\ ret.sucesso => /\ call.args.resposta = "ok"
                           /\ ret.fonte = "Investing.com"
                           /\ ret.preco \in Nat
    /\ call.fn = "obter_cotacao_euro_real" =>
         /\ ret.status = "ok"
         /\ SemCambio(call.args) => ~ret.sucesso
         /\ ~ret.sucesso => ret.cotacao = 550 /\ ret.fonte = "Referencia"
         /\ ret.sucesso =>
              \/ /\ ret.fonte = "AwesomeAPI"
                 /\ call.args.awesome.resposta = "200"
                 /\ Float(call.args.awesome.valor) = [status |-> "ok", valor |-> ret.cotacao]
              \/ /\ ret.fonte = "ExchangeRate-API"
                 /\ call.args.exchangerate.resposta = "200"
                 /\ ret.cotacao = call.args.exchangerate.valor
    /\ call.fn = "calcular_valor_creditos" =>
         ret = [status |-> "ok",
                valor_total |-> call.args.emissoes * call.args.preco
                                  * call.args.taxa]

\* the first API raised, the second answered 500, and the reference rate
\* came back with the flag False
C15_Witness ==
  /\ pc = "done"
  /\ call.fn = "obter_cotacao_euro_real"
  /\ call.args.awesome.resposta = "excecao"
  /\ call.args.exchangerate.resposta = "500"
  /\ ret.status = "ok"
  /\ ret.cotacao = 550
  /\ ~ret.sucesso

\* C16: for every horizon of one day or more, those shorter than the
\* profiles of 50, 5 and 3 days included, the CH4 and the N2O series of
\* calcular_emissoes_aterro, calcular_emissoes_vermi and
\* calcular_emissoes_compostagem have one element per day of the horizon
C16_UmElementoPorDia ==
  (Retornou(Continuas) /\ call.args.dias >= 1 /\ Ok) =>
    /\ Len(ret.ch4) = call.args.dias
    /\ Len(ret.n2o) = call.args.dias

\* calcular_emissoes_compostagem returned series of two days, fewer than
\* every profile
C16_Witness ==
  /\ Retornou({"calcular_emissoes_compostagem"})
  /\ call.args.dias = 2
  /\ call.args.dias < Len(PERFIL_N2O_PRE_DESCARTE)
  /\ Ok
  /\ Len(ret.ch4) = 2
  /\ ret.ch4[2] > ret.ch4[1]

\* the moistures a lot is compared at, in percent
UmidadesBorda == {0, 40, 50, 85, 95, 100}

\* the lifetime totals of a lot, (CH4, N2O): what a series holds on the last
\* day of a horizon of 50 days or more
TotaisDoLote(r) == <<r.ch4[Len(r.ch4)], r.n2o[Len(r.n2o)]>>

\* C17: at moisture 0 every pathway returns (nothing is divided by the
\* moisture), and the lifetime totals of CH4 and of N2O of a lot of
\* vermicomposting and of thermophilic composting are strictly smaller at
\* every larger moisture of [0,1]: largest at moisture 0, zero at moisture 1
C17_UmidadeNasBordas ==
  /\ (Retornou(Entradas) /\ call.args.umidade = 0 /\ call.args.residuos > 0
        /\ call.args.dias >= 1) => Ok
  /\ (Retornou({"calcular_emissoes_vermi", "calcular_emissoes_compostagem"})
        /\ call.args.umidade \in UmidadesBorda /\ call.args.residuos > 0
        /\ call.args.dias >= DIAS_COMPOSTAGEM) =>
       /\ Ok
       /\ \A u \in UmidadesBorda :
            u > call.args.umidade =>
              LET outra == Sozinha([call EXCEPT !.args.umidade = u])
              IN  /\ TotaisDoLote(outra)[1] < TotaisDoLote(ret)[1]
                  /\ TotaisDoLote(outra)[2] < TotaisDoLote(ret)[2]
       /\ call.args.umidade = 100 => TotaisDoLote(ret) = <<0, 0>>
       /\ call.args.umidade = 0 =>
            /\ TotaisDoLote(ret)[1] > 0
            /\ TotaisDoLote(ret)[2] > 0

\* calcular_emissoes_vermi returned for a lot without water, with totals
\* above those of the lot at 95 percent
C17_Witness ==
  /\ Retornou({"calcular_emissoes_vermi"})
  /\ call.args.umidade = 0
  /\ call.args.dias >= DIAS_COMPOSTAGEM
  /\ Ok
  /\ TotaisDoLote(Sozinha([call EXCEPT !.args.umidade = 95]))[2]
       < TotaisDoLote(ret)[2]

\* the sensitivity tables a run has built
Tabelas ==
  {cont[c].tabela : c \in {c \in {"sobol_tese", "sobol_unfccc"} :
                             cont[c].status = "ok"}}

TotaisPorLote(c) ==
  LET a == c.args
      vermi == c.fn = "calcular_emissoes_vermi"
  IN  <<TotalCH4PorLote(a.residuos, TOC_YANG,
                        IF vermi THEN CH4_C_FRAC_YANG ELSE CH4_C_FRAC_THERMO,
                        100 - a.umidade),
        TotalN2OPorLote(a.residuos, TN_YANG,
                        IF vermi THEN N2O_N_FRAC_YANG ELSE N2O_N_FRAC_THERMO,
                        100 - a.umidade)>>

\* the profiles, (CH4, N2O), of the function of a call
PerfisDe(c) ==
  IF c.fn = "calcular_emissoes_vermi"
  THEN <<PERFIL_CH4_VERMI, PERFIL_N2O_VERMI>>
  ELSE <<PERFIL_CH4_THERMO, PERFIL_N2O_THERMO>>

\* the series is the truncated convolution of the total with the profile:
\* day n holds the total times the sum of the first min(n, 50) weights, to
\* one unit per weight; it does not decrease with n and holds the whole
\* total, to the same rounding, from day 50 on
Truncada(serie, total, perfil) ==
  LET acc == CumSum(perfil)
      L == Len(perfil)
  IN  /\ \A n \in 1..Len(serie) :
           /\ Abs(serie[n] - MulS(total, acc[Min(n, L)])) <= L
           /\ n > 1 => serie[n] >= serie[n - 1]
           /\ n >= L => serie[n] = serie[L] /\ Abs(serie[n] - total) <= 2 * L

\* a call of a continuous composting function with a moisture in [0,1], a
\* waste mass of zero or more and a horizon of a day or more has returned
CompostagemRetornou ==
  /\ Retornou({"calcular_emissoes_vermi", "calcular_emissoes_compostagem"})
  /\ call.args.umidade \in 0..100
  /\ call.args.residuos >= 0
  /\ call.args.dias >= 1
  /\ Ok

\* C20 as stated: the series of calcular_emissoes_vermi and
\* calcular_emissoes_compostagem are the truncated convolution, and the sum
\* of a series over the horizon H is strictly below H times the total of a
\* lot
C20_ConvolucaoTruncada ==
  CompostagemRetornou =>
    /\ Truncada(ret.ch4, TotaisPorLote(call)[1], PerfisDe(call)[1])
    /\ Truncada(ret.n2o, TotaisPorLote(call)[2], PerfisDe(call)[2])
    /\ SumSeq(ret.ch4) < call.args.dias * TotaisPorLote(call)[1]
    /\ SumSeq(ret.n2o) < call.args.dias * TotaisPorLote(call)[2]

\* C20: the series are the truncated convolution; the sum of a series over
\* the horizon H is strictly below H times the total of a lot when that total
\* is positive, and the series is zero throughout when the total is zero
\* (no waste, or a moisture of 1)
C20_ConvolucaoTruncadaDeTotalPositivo ==
  CompostagemRetornou =>
    /\ Truncada(ret.ch4, TotaisPorLote(call)[1], PerfisDe(call)[1])
    /\ Truncada(ret.n2o, TotaisPorLote(call)[2], PerfisDe(call)[2])
    /\ IF TotaisPorLote(call)[1] > 0
       THEN SumSeq(ret.ch4) < call.args.dias * TotaisPorLote(call)[1]
       ELSE Nula(ret.ch4) /\ SumSeq(ret.ch4) = call.args.dias * TotaisPorLote(call)[1]
    /\ IF TotaisPorLote(call)[2] > 0
       THEN SumSeq(ret.n2o) < call.args.dias * TotaisPorLote(call)[2]
       ELSE Nula(ret.n2o) /\ SumSeq(ret.n2o) = call.args.dias * TotaisPorLote(call)[2]

\* calcular_emissoes_vermi returned over a horizon longer than the profile:
\* the series rises up to day 50 and stays there
C20_Witness ==
  /\ CompostagemRetornou
  /\ call.fn = "calcular_emissoes_vermi"
  /\ call.args.dias > DIAS_COMPOSTAGEM
  /\ TotaisPorLote(call)[1] > 0
  /\ ret.ch4[1] < ret.ch4[DIAS_COMPOSTAGEM]
  /\ ret.ch4[call.args.dias] = ret.ch4[DIAS_COMPOSTAGEM]
  /\ SumSeq(ret.ch4) < call.args.dias * TotaisPorLote(call)[1]

\* calcular_emissoes_aterro has returned its series for a positive waste
\* mass and a horizon of a day or more
AterroRetornou ==
  /\ Retornou({"calcular_emissoes_aterro"})
  /\ call.args.residuos > 0
  /\ call.args.dias >= 1
  /\ Ok

\* the landfill CH4 of a call without the pre-disposal term
CH4SemPreDescarte ==
  LET pre == calcular_emissoes_pre_descarte(21, call.args.dias, call.args.residuos)
  IN  [n \in 1..call.args.dias |-> ret.ch4[n] - pre.ch4[n]]

\* residuos_kg_dia * DOC * (0.0147 * T + 0.28) * 1 * 0.5 * (16/12) * 1 * 0.9
\* in mass units: the percent and the 1e-4 of DOCf leave 6 units per product
PotencialDiario ==
  6 * call.args.residuos * call.args.doc * (147 * call.args.temperatura + 2800)

\* C21: without the pre-disposal term, the landfill CH4 of day n is the
\* daily potential times the sum of the kernel over days 1..n; it does not
\* decrease with n and stays below the daily potential
C21_CH4AterroAcumulaKernel ==
  AterroRetornou =>
    LET kernel == KernelCH4(call.args.dias) \o <<>>
        ch4 == CH4SemPreDescarte \o <<>>
    IN  \A n \in 1..call.args.dias :
          /\ ch4[n] = MulS(PotencialDiario, SumRange(kernel, 1, n))
          /\ n > 1 => ch4[n] >= ch4[n - 1]
          /\ ch4[n] < PotencialDiario

\* a landfill series of 60 days that rises from the first day to the last
C21_Witness ==
  /\ AterroRetornou
  /\ call.args.dias = MaxDias
  /\ CH4SemPreDescarte[1] > 0
  /\ CH4SemPreDescarte[MaxDias] > CH4SemPreDescarte[1]
  /\ CH4SemPreDescarte[MaxDias] < PotencialDiario

\* the landfill N2O of a call without the pre-disposal term
N2OSemPreDescarte ==
  LET pre == calcular_emissoes_pre_descarte(21, call.args.dias, call.args.residuos)
  IN  [n \in 1..call.args.dias |-> ret.n2o[n] - pre.n2o[n]]

\* E_medio * ((1 - moisture) / (1 - 0.55)) * (44/28) / 1e6 * residuos_kg_dia
\* of the call, in mass units
TaxaDiariaN2O ==
  EmissaoDiariaN2O(EMedio(FAberto(call.args.massa, call.args.residuos, call.args.h)),
                   call.args.umidade, call.args.residuos)

\* C22: without the pre-disposal term, the landfill N2O is the daily rate
\* spread by the weights 0.10, 0.30, 0.40, 0.15, 0.05, which sum to 1: from
\* the fifth day on it equals the daily rate, before that the rate times the
\* cumulative weight 0.10, 0.40, 0.80, 0.95
C22_N2OAterroPerfilDeCincoDias ==
  AterroRetornou =>
    LET acumulado == <<10, 40, 80, 95, 100>>
        n2o == N2OSemPreDescarte \o <<>>
    IN  \A n \in 1..call.args.dias :
          n2o[n] = IF n >= 5 THEN TaxaDiariaN2O
                   ELSE (TaxaDiariaN2O * acumulado[n]) \div 100

\* a landfill series past its fifth day: a tenth of the rate on the first
\* day, the whole rate on the fifth and on the last
C22_Witness ==
  /\ AterroRetornou
  /\ call.args.dias = MaxDias
  /\ TaxaDiariaN2O > 0
  /\ N2OSemPreDescarte[1] = TaxaDiariaN2O \div 10
  /\ N2OSemPreDescarte[5] = TaxaDiariaN2O
  /\ N2OSemPreDescarte[MaxDias] = TaxaDiariaN2O

\* executar_simulacao_unfccc has returned for a moisture of 0 to 1, a
\* positive waste mass and a horizon of a day or more
UnfcccRetornou ==
  /\ Retornou({"executar_simulacao_unfccc"})
  /\ call.args.umidade \in 0..100
  /\ call.args.residuos > 0
  /\ call.args.dias >= 1
  /\ Ok

\* executar_simulacao_completa on the arguments of the call
CompletaDaChamada ==
  executar_simulacao_completa_em(modulo, Params(call.args), call.args.dias,
                                 call.args.residuos, call.args.massa, call.args.h)

LoteDe(fn, residuos_kg, umidade) ==
  IF fn = "calcular_emissoes_vermi"
  THEN calcular_emissoes_vermicompostagem_lote(residuos_kg, umidade, DIAS_COMPOSTAGEM)
  ELSE calcular_emissoes_compostagem_lote(residuos_kg, umidade, DIAS_COMPOSTAGEM)

\* a continuous-input composting function has returned for a horizon of 50
\* days or more
CompostagemLongaRetornou ==
  /\ Retornou({"calcular_emissoes_vermi", "calcular_emissoes_compostagem"})
  /\ call.args.dias >= DIAS_COMPOSTAGEM
  /\ Ok

\* C24: for the same waste mass and moisture and a horizon of 50 days or
\* more, the CH4 of calcular_emissoes_vermi (calcular_emissoes_compostagem)
\* on day index d is the sum of the first min(d, 49) + 1 elements of
\* calcular_emissoes_vermicompostagem_lote (calcular_emissoes_compostagem_lote)
C24_LoteEContinuoConcordam ==
  CompostagemLongaRetornou =>
    LET emissoes_lote ==
          LoteDe(call.fn, call.args.residuos, call.args.umidade).emissoes_CH4 \o <<>>
    IN  /\ Len(emissoes_lote) = DIAS_COMPOSTAGEM
        /\ \A n \in 1..call.args.dias :
             ret.ch4[n] = SumRange(emissoes_lote, 1, Min(n, DIAS_COMPOSTAGEM))

\* a horizon of 60 days of a positive waste mass: the series rises to the
\* total of the lot on day 50 and stays there
C24_Witness ==
  /\ CompostagemLongaRetornou
  /\ call.args.dias = MaxDias
  /\ call.args.umidade = 85
  /\ call.args.residuos > 0
  /\ ret.ch4[1] > 0
  /\ ret.ch4[DIAS_COMPOSTAGEM] > ret.ch4[1]
  /\ ret.ch4[MaxDias] =
       SumSeq(LoteDe(call.fn, call.args.residuos, call.args.umidade).emissoes_CH4 \o <<>>)

\* C25: the last cumulative reduction of the annual table of each scenario
\* is the sum of the daily landfill CO2eq minus the sum of the daily project
\* CO2eq over the anos * 365 days from the first of January, whether the
\* first year is a leap year or not
C25_ResumoAnualNadaPerde ==
  cont.base.status = "ok" =>
    /\ cont.base.total_evitado_unfccc =
         cont.base.total_aterro - cont.base.total_compost
    /\ cont.base.acumulada_tese =
         cont.base.total_aterro - cont.base.total_vermi

\* a run of 1825 days from the first of January of the leap year 2024: five
\* calendar years, the last one short of two days, and positive totals
C25_Witness ==
  /\ cont.base.status = "ok"
  /\ entrada.ano_inicio = 2024
  /\ cont.base.dias = ANOS_MINIMO * DIAS_ANO
  /\ cont.base.dias <
       DiasDoAno(2024) + DiasDoAno(2025) + DiasDoAno(2026) + DiasDoAno(2027)
         + DiasDoAno(2028)
  /\ cont.base.anos_calendario = ANOS_MINIMO
  /\ cont.base.total_compost > 0
  /\ cont.base.total_evitado_unfccc > 0

(***************************************************************************)
(* Properties of the page                                                  *)
(***************************************************************************)
\* the metrics are on the screen, every key they read is defined
MetricasExibidas ==
  /\ pagina.pos = "metricas"
  /\ ChavesDasMetricas \subseteq DOMAIN pagina.s

\* since the page was opened or the button was last clicked,
\* exibir_cotacao_carbono has fetched at most once and asked for at most one
\* rerun; a run that has ended has done both exactly once, left the two
\* flags False and shown the metrics
UmaBuscaPorCiclo ==
  /\ pagina.buscas <= 1
  /\ pagina.reruns <= 1
  /\ pagina.pos \in {"fora", "script", "sidebar", "metricas"}
  /\ pagina.pos = "metricas" =>
       /\ pagina.buscas = 1
       /\ pagina.reruns = 1
       /\ pagina.s.mostrar_atualizacao = FALSE
       /\ pagina.s.cotacao_atualizada = FALSE
       /\ MetricasExibidas

\* C26: after the first load or a click on the refresh button,
\* exibir_cotacao_carbono fetches the quotes once, clears mostrar_atualizacao
\* and cotacao_atualizada and asks for one rerun; no other fetch or rerun
\* follows until the next click, and every run that starts leads to the
\* metrics on the screen with the five keys defined
C26_CicloDeAtualizacaoTermina ==
  /\ []UmaBuscaPorCiclo
  /\ (pagina.pos = "script") ~> MetricasExibidas

\* the metrics on the screen after a click on the button: one fetch, one
\* rerun, the flags cleared
C26_Witness ==
  /\ MetricasExibidas
  /\ pagina.buscas = 1
  /\ pagina.reruns = 1
  /\ pagina.s.cotacao_carregada
  /\ ~pagina.s.mostrar_atualizacao
  /\ pagina.s.fonte_cotacao = "Investing.com"
  /\ pagina.s.taxa_cambio = 561

(***************************************************************************)
(* Properties of the quotes and of the application, continued              *)
(***************************************************************************)
\* C27: a price that obter_cotacao_carbono_investing returns with success
\* True lies strictly between 50 and 200, whether a selector or a pattern
\* found it
C27_PrecoNaFaixaRazoavel ==
  Retornou({"obter_cotacao_carbono"}) =>
    LET r == obter_cotacao_carbono_investing(call.args)
    IN  r.sucesso => (5000 < r.preco /\ r.preco < 20000)

\* the (moisture, temperature, DOC) triple of draw i of a Monte Carlo phase
Tripla(m, i) == <<m.umidade_vals[i], m.temp_vals[i], m.doc_vals[i]>>

\* a run of the script has finished both Monte Carlo phases
MonteCarloCompleto ==
  /\ fase = "parado"
  /\ cont.mc_tese.status = "ok"
  /\ cont.mc_unfccc.status = "ok"

\* C28: at the end of a run the two Monte Carlo outcome arrays have
\* n_simulations elements each, and element i of both was computed from the
\* same (moisture, temperature, DOC) triple
C28_MesmosSorteiosNosDoisCenarios ==
  MonteCarloCompleto =>
    /\ Len(cont.mc_tese.results) = entrada.n_simulations
    /\ Len(cont.mc_unfccc.results) = entrada.n_simulations
    /\ \A i \in 1..entrada.n_simulations :
         /\ Tripla(cont.mc_tese, i) = Tripla(cont.mc_unfccc, i)
         /\ cont.mc_tese.results[i] =
              ResultadosTese[Tripla(cont.mc_tese, i)].reducao_tco2eq
         /\ cont.mc_unfccc.results[i] =
              ResultadosUnfccc[Tripla(cont.mc_tese, i)].reducao_tco2eq

\* a run with two simulations whose draws differ from each other, the
\* generator having been in different states before the two phases
C28_Witness ==
  /\ MonteCarloCompleto
  /\ entrada.n_simulations = MaxSimulacoes
  /\ Tripla(cont.mc_tese, 1) # Tripla(cont.mc_tese, 2)
  /\ cont.mc_tese.estado_inicial # cont.mc_unfccc.estado_inicial
  /\ cont.mc_tese.results[1] # cont.mc_unfccc.results[1]

\* day n is the first whose cumulated value is percentual percent of the
\* last cumulated value or more
PrimeiroAAtingir(acumulado, percentual, n) ==
  LET total == acumulado[Len(acumulado)]
  IN  /\ n \in 1..Len(acumulado)
      /\ acumulado[n] * 100 >= percentual * total
      /\ \A k \in 1..(n - 1) : acumulado[k] * 100 < percentual * total

\* C29: in the analysis of a lot, the days reported for 50, 90, 95 and 99
\* percent of the emissions of each scenario are in this order between 1
\* and dias_simulacao, each the first day whose cumulated share of the
\* emissions within the horizon reaches the percentage; for vermicomposting
\* and thermophilic composting the day of 99 percent is at most 50
C29_DiasDosPercentuais ==
  lote.status = "ok" =>
    /\ \A c \in {"Aterro", "Vermi", "Compost"} :
         LET r == lote.resultados_temporais[c]
         IN  /\ Len(r.acumulado) = lote.dias_simulacao
             /\ 1 <= r.dia[50]
             /\ r.dia[50] <= r.dia[90]
             /\ r.dia[90] <= r.dia[95]
             /\ r.dia[95] <= r.dia[99]
             /\ r.dia[99] <= lote.dias_simulacao
             /\ \A p \in Percentuais : PrimeiroAAtingir(r.acumulado, p, r.dia[p])
    /\ lote.resultados_temporais.Vermi.dia[99] <= DIAS_COMPOSTAGEM
    /\ lote.resultados_temporais.Compost.dia[99] <= DIAS_COMPOSTAGEM

\* the analysis of a lot over 365 days: the landfill reaches half of its
\* emissions after day 50, the composting scenarios 99 percent before it,
\* and the four days of the landfill differ
C29_Witness ==
  /\ lote.status = "ok"
  /\ lote.dias_simulacao = DIAS_LOTE_PADRAO
  /\ lote.resultados_temporais.Aterro.dia[50] > DIAS_COMPOSTAGEM
  /\ lote.resultados_temporais.Aterro.dia[50] < lote.resultados_temporais.Aterro.dia[90]
  /\ lote.resultados_temporais.Aterro.dia[95] < lote.resultados_temporais.Aterro.dia[99]
  /\ lote.resultados_temporais.Aterro.dia[99] < DIAS_LOTE_PADRAO
  /\ lote.resultados_temporais.Vermi.dia[50] > 1
  /\ lote.resultados_temporais.Vermi.dia[99] < DIAS_COMPOSTAGEM
  /\ lote.resultados_temporais.Compost.dia[99] < DIAS_COMPOSTAGEM

\* C30: for a positive waste mass, exposed mass and exposure time, f_aberto
\* is within 0 and 1 and E_medio within 1.91 and 2.15, so that the daily N2O
\* of the landfill lies between the rates of the open and of the closed face
C30_EMedioEntreAbertoEFechado ==
  (AterroRetornou /\ call.args.massa > 0 /\ call.args.h > 0) =>
    LET f_aberto == FAberto(call.args.massa, call.args.residuos, call.args.h)
        E_medio == EMedio(f_aberto)
        Taxa(E) == EmissaoDiariaN2O(E, call.args.umidade, call.args.residuos)
    IN  /\ 0 <= f_aberto
        /\ f_aberto <= 10000
        /\ 1910000 <= E_medio
        /\ E_medio <= 2150000
        /\ (call.args.dias >= 5 /\ call.args.umidade <= 100) =>
             /\ Taxa(1910000) <= N2OSemPreDescarte[5]
             /\ N2OSemPreDescarte[5] <= Taxa(2150000)

\* both cases: an exposed mass above the daily mass, where the product 3.33
\* is clipped to 1 and E_medio is 1.91, and an exposed mass equal to the
\* daily mass, where f_aberto is a third and E_medio lies inside the interval
C30_Witness ==
  /\ AterroRetornou
  /\ call.args.dias >= 5
  /\ call.args.umidade = 85
  /\ \/ /\ call.args.massa > call.args.residuos
        /\ FAberto(call.args.massa, call.args.residuos, call.args.h) = 10000
        /\ N2OSemPreDescarte[5] =
             EmissaoDiariaN2O(1910000, call.args.umidade, call.args.residuos)
     \/ /\ call.args.massa = call.args.residuos
        /\ FAberto(call.args.massa, call.args.residuos, call.args.h) = 3333
        /\ N2OSemPreDescarte[5] >
             EmissaoDiariaN2O(1910000, call.args.umidade, call.args.residuos)
        /\ N2OSemPreDescarte[5] <
             EmissaoDiariaN2O(2150000, call.args.umidade, call.args.residuos)

====
